---- MODULE Spec2Model ----
(***************************************************************************)
(* Verification model of the eve-esi-client compliance engine:             *)
(*   - pkg/ratelimit: RateLimitState, Tracker (GetState,                   *)
(*     UpdateFromHeaders, ShouldAllowRequest) over the three Redis keys    *)
(*     esi:rate_limit:{errors_remaining,reset_timestamp,last_update};      *)
(*   - pkg/client: Client.Do, classifyError, shouldRetry,                  *)
(*     RetryConfigForErrorClass, retryWithBackoff;                         *)
(*   - pkg/cache: CacheEntry, Manager (Get, Set, Delete, UpdateTTL),       *)
(*     ResponseToEntry, parseExpires, ShouldMakeConditionalRequest, for    *)
(*     the one cache key of the followed request;                          *)
(*   - pkg/pagination: BatchFetcher.FetchAllPages and its goroutines.      *)
(*                                                                         *)
(* Time is the wall clock in milliseconds (variable now).  A Redis key is  *)
(* a sequence of length 0 (redis.Nil) or 1 (the stored value).             *)
(*                                                                         *)
(* Twelve specifications share the variables:                              *)
(*   SpecTracker  Tracker operations run by concurrent goroutines, one     *)
(*                Redis command per step;                                  *)
(*   Spec         one Client.Do call, one step per suspension point;       *)
(*   SpecSeq      consecutive Client.Do calls of one caller;               *)
(*   SpecAbsorb   UpdateFromHeaders followed by GetState, per goroutine;   *)
(*   SpecConc     Client.Do calls of two goroutines on one client;         *)
(*   SpecFault    one Client.Do call while Redis fails or holds garbage;   *)
(*   SpecIdent    consecutive Client.Do calls for different callers;       *)
(*   SpecCache    Manager calls (Set, Get, Delete, UpdateTTL) on one key;  *)
(*   SpecRace     Manager.UpdateTTL and Manager.Set of two goroutines;     *)
(*   SpecKey      CacheKey.String on two keys;                             *)
(*   SpecPages    one FetchAllPages call, one step per channel operation;  *)
(*   SpecPagesLive  SpecPages under a fair goroutine scheduler.            *)
(***************************************************************************)
EXTENDS Integers, Sequences, FiniteSets, TLC

VARIABLES now, rl, redisUp, tp, tuples, lastLanded, cfg, call, upstream,
          cache, mgr, ck, pg

vars == <<now, rl, redisUp, tp, tuples, lastLanded, cfg, call, upstream,
          cache, mgr, ck, pg>>

----------------------------------------------------------------------------
(* Bounds of the model *)

NumProcs == 2

MaxTime == 4000

MaxOps == 1

MaxCalls == 2

(* Pages of the endpoint FetchAllPages reads *)
MaxPages == 4

(* Workers a BatchFetcher may be configured with *)
MaxWorkers == 2

----------------------------------------------------------------------------
(* pkg/ratelimit constants (state.go) *)

ErrorThresholdCritical == 5

ErrorThresholdWarning == 20

ErrorThresholdHealthy == 50

DefaultErrorsRemaining == 100

DefaultResetMs == 60000

ThrottleSleepMs == 1000

Procs == 1..NumProcs

Absent == <<>>

(* A header value: absent (""), not an integer, or an integer *)
HAbsent == [k |-> "absent", v |-> 0]

HBad == [k |-> "bad", v |-> 0]

HInt(n) == [k |-> "int", v |-> n]

(* Header sets served by the upstream in the tracker tests *)
TrackerHeaders ==
  { [remain |-> HInt(3),   reset |-> HInt(2)],
    [remain |-> HInt(100), reset |-> HInt(3)],
    [remain |-> HAbsent,   reset |-> HInt(3)],
    [remain |-> HInt(3),   reset |-> HAbsent],
    [remain |-> HBad,      reset |-> HInt(3)],
    [remain |-> HInt(3),   reset |-> HBad] }

(* Budget values a store can hold when a tracker starts *)
SeedBudgets == {3, 4, 5, 19, 20, 49, 50, 100}

(* A last_update value: valid JSON time (json = TRUE) or a raw string that
   is not JSON, as seeded by tests/integration TestRateLimitBlock *)
LU(t) == [json |-> TRUE, t |-> t]

LURaw == [json |-> FALSE, t |-> 0]

EmptyStore == [errors_remaining |-> Absent, reset_timestamp |-> Absent,
               last_update |-> Absent]

(* Stores a tracker can find at start: empty (fresh deployment), all three
   keys, the two keys of TestIntegration_RateLimitIntegration, and the raw
   last_update of TestRateLimitBlock *)
SeedStores ==
  {EmptyStore}
  \cup { [errors_remaining |-> <<b>>, reset_timestamp |-> <<2>>,
          last_update |-> lu] :
           b \in SeedBudgets, lu \in {<<LU(0)>>, Absent} }
  \cup { [errors_remaining |-> <<3>>, reset_timestamp |-> <<2>>,
          last_update |-> <<LURaw>>] }

----------------------------------------------------------------------------
(* RateLimitState predicates *)

(* Mutant: the critical comparison includes the threshold itself *)
NeedsCriticalBlock_AtThreshold(s) ==
  s.ErrorsRemaining <= ErrorThresholdCritical

NeedsCriticalBlock(s) == s.ErrorsRemaining < ErrorThresholdCritical

NeedsThrottling(s) ==
  s.ErrorsRemaining < ErrorThresholdWarning /\ ~NeedsCriticalBlock(s)

UpdateHealth(s) ==
  [s EXCEPT !.IsHealthy = (s.ErrorsRemaining >= ErrorThresholdHealthy)]

(* time.Time.Unix(): whole seconds, truncated *)
Unix(ms) == ms \div 1000

(* time.Unix(sec, 0) *)
FromUnix(sec) == sec * 1000

(* redis Get(key).Int() / .Int64(): redis.Nil leaves the zero value *)
IntOrZero(key) == IF key = Absent THEN 0 ELSE key[1]

(* The tail of Tracker.GetState once the three GETs have answered with
   er, rs, lu: only the error of the last GET (last_update) is inspected *)
GetStateResult(er, rs, lu, t) ==
  IF lu = Absent
    THEN [kind |-> "default",
          state |-> [ErrorsRemaining |-> DefaultErrorsRemaining,
                     ResetAt |-> t + DefaultResetMs,
                     LastUpdate |-> t, IsHealthy |-> TRUE]]
  ELSE IF ~lu[1].json
    THEN [kind |-> "error",
          state |-> [ErrorsRemaining |-> 0, ResetAt |-> 0,
                     LastUpdate |-> 0, IsHealthy |-> FALSE]]
  ELSE [kind |-> "stored",
        state |-> UpdateHealth([ErrorsRemaining |-> IntOrZero(er),
                                ResetAt |-> FromUnix(IntOrZero(rs)),
                                LastUpdate |-> lu[1].t,
                                IsHealthy |-> FALSE])]

(* Mutant: a missing or unparsable reset header counts as 0 seconds *)
ParseHeaders_ResetOptional(h, t) ==
  IF h.remain.k = "absent" THEN [kind |-> "noop", tuple |-> EmptyStore]
  ELSE IF h.remain.k = "bad" THEN [kind |-> "error", tuple |-> EmptyStore]
  ELSE [kind |-> "write",
        tuple |-> [errors_remaining |-> <<h.remain.v>>,
                   reset_timestamp |-> <<Unix(t + h.reset.v * 1000)>>,
                   last_update |-> <<LU(t)>>]]

(* Header parsing of Tracker.UpdateFromHeaders:
   "noop" (remain absent), "error", or "write" with the tuple to store *)
ParseHeaders(h, t) ==
  IF h.remain.k = "absent" THEN [kind |-> "noop", tuple |-> EmptyStore]
  ELSE IF h.remain.k = "bad" THEN [kind |-> "error", tuple |-> EmptyStore]
  ELSE IF h.reset.k # "int" THEN [kind |-> "error", tuple |-> EmptyStore]
  ELSE [kind |-> "write",
        tuple |-> [errors_remaining |-> <<h.remain.v>>,
                   reset_timestamp |-> <<Unix(t + h.reset.v * 1000)>>,
                   last_update |-> <<LU(t)>>]]

(* The gate decision of Tracker.ShouldAllowRequest on a read state *)
GateDecision(r) ==
  IF r.kind = "error" THEN "error"
  ELSE IF NeedsCriticalBlock(r.state) THEN "block"
  ELSE IF NeedsThrottling(r.state) THEN "throttle"
  ELSE "allow"

----------------------------------------------------------------------------
(* pkg/client: error classes, retry profiles, the body of Do's attempt *)

(* Spec follows the calls of one goroutine through Do.  Calls of other
   goroutines and replicas meet it only in the Redis store; SpecTracker
   examines those interleavings command by command *)
Calls == {"call"}

ErrorClassNone == ""

ErrorClassClient == "client"

ErrorClassServer == "server"

ErrorClassRateLimit == "rate_limit"

ErrorClassNetwork == "network"

(* Client.classifyError; transport = TRUE stands for a non-nil error *)
classifyError(status, transport) ==
  IF transport THEN ErrorClassNetwork
  ELSE IF status = 520 THEN ErrorClassRateLimit
  ELSE IF status >= 400 /\ status < 500 THEN ErrorClassClient
  ELSE IF status >= 500 THEN ErrorClassServer
  ELSE ErrorClassNone

(* Mutant: client errors are retried like the other classes *)
shouldRetry_Client(errorClass) ==
  errorClass \in {"client", "server", "rate_limit", "network"}

shouldRetry(errorClass) ==
  errorClass \in {ErrorClassServer, ErrorClassRateLimit, ErrorClassNetwork}

DefaultRetryConfig ==
  [MaxAttempts |-> 3, InitialBackoff |-> 1000, MaxBackoff |-> 30000,
   BackoffMultiplier |-> 2]

(* Mutant: the rate-limit profile allows a fourth attempt and the server
   profile only two *)
RetryConfigForErrorClass_Attempts(errorClass) ==
  IF errorClass = "server"
    THEN [MaxAttempts |-> 2, InitialBackoff |-> 1000, MaxBackoff |-> 10000,
          BackoffMultiplier |-> 2]
  ELSE IF errorClass = "rate_limit"
    THEN [MaxAttempts |-> 4, InitialBackoff |-> 5000, MaxBackoff |-> 60000,
          BackoffMultiplier |-> 2]
  ELSE [MaxAttempts |-> 3, InitialBackoff |-> 2000, MaxBackoff |-> 30000,
        BackoffMultiplier |-> 2]

RetryConfigForErrorClass(errorClass) ==
  IF errorClass = ErrorClassServer
    THEN [MaxAttempts |-> 3, InitialBackoff |-> 1000, MaxBackoff |-> 10000,
          BackoffMultiplier |-> 2]
  ELSE IF errorClass = ErrorClassRateLimit
    THEN [MaxAttempts |-> 3, InitialBackoff |-> 5000, MaxBackoff |-> 60000,
          BackoffMultiplier |-> 2]
  ELSE IF errorClass = ErrorClassNetwork
    THEN [MaxAttempts |-> 3, InitialBackoff |-> 2000, MaxBackoff |-> 30000,
          BackoffMultiplier |-> 2]
  ELSE DefaultRetryConfig

(* Jitter factor 0.8 + rand.Float64()*0.4 in percent: [80, 120) *)
JitterPercents == {80, 100, 119}

(* Mutant: the backoff is capped but never multiplied *)
NextBackoff_Constant(backoff, config) ==
  IF backoff > config.MaxBackoff THEN config.MaxBackoff ELSE backoff

(* backoff = min(MaxBackoff, backoff * multiplier) *)
NextBackoff(backoff, config) ==
  IF backoff * config.BackoffMultiplier > config.MaxBackoff
    THEN config.MaxBackoff
    ELSE backoff * config.BackoffMultiplier

RECURSIVE BackoffAt(_, _)
(* The un-jittered backoff of the n-th wait of a loop run with config:
   InitialBackoff, then the update of retry.go 152-155 after every wait *)
BackoffAt(n, config) ==
  IF n = 1 THEN config.InitialBackoff
  ELSE NextBackoff(BackoffAt(n - 1, config), config)

(* Statuses the upstream answers with *)
Statuses == {200, 204, 304, 404, 500, 520}

(* Budget headers an upstream response carries *)
DoHeaders ==
  { [remain |-> HAbsent,   reset |-> HAbsent],
    [remain |-> HInt(3),   reset |-> HInt(60)],
    [remain |-> HInt(100), reset |-> HInt(60)] }

(* Tracker.UpdateFromHeaders as one step: the store after the call *)
UpdateFromHeaders(store, h, t, up) ==
  LET r == ParseHeaders(h, t)
  IN IF r.kind = "write" /\ up THEN r.tuple ELSE store

(* Mutant: the headers are absorbed only on the success path, after the
   304 and error returns *)
AfterResponse_Late(store, status, h, t, up, prevClass) ==
  LET cls == IF status >= 500 \/ status = 520 THEN
               (IF status = 520 THEN "rate_limit" ELSE "server")
             ELSE IF status >= 400 THEN "client" ELSE ""
  IN IF status = 304
       THEN [rl |-> store, absorbed |-> 0, classified |-> 0,
             errClass |-> prevClass, fnErr |-> FALSE]
     ELSE IF status >= 400
       THEN [rl |-> store, absorbed |-> 0, classified |-> 1,
             errClass |-> cls, fnErr |-> cls # "client"]
     ELSE [rl |-> IF ParseHeaders(h, t).kind = "write" /\ up
                    THEN ParseHeaders(h, t).tuple ELSE store,
           absorbed |-> 1, classified |-> 0,
           errClass |-> prevClass, fnErr |-> FALSE]

(* Mutant: the 304 return is missing, so a 304 falls through to the error
   handling with the test status >= 300 *)
AfterResponse_No304(store, status, h, t, up, prevClass) ==
  LET absorbedStore == IF ParseHeaders(h, t).kind = "write" /\ up
                         THEN ParseHeaders(h, t).tuple ELSE store
      cls == IF status = 520 THEN "rate_limit"
             ELSE IF status >= 500 \/ status = 304 THEN "server"
             ELSE IF status >= 400 THEN "client" ELSE ""
  IN IF status >= 300
       THEN [rl |-> absorbedStore, absorbed |-> 1, classified |-> 1,
             errClass |-> cls, fnErr |-> cls # "client"]
     ELSE [rl |-> absorbedStore, absorbed |-> 1, classified |-> 0,
           errClass |-> prevClass, fnErr |-> FALSE]

(* The attempt closure of Do from the response on (client.go 238-278):
   absorb the budget headers, then 304 -> nil, status >= 400 -> classify
   and fail the attempt if the class is retryable, else nil *)
AfterResponse(store, status, h, t, up, prevClass) ==
  LET absorbedStore == UpdateFromHeaders(store, h, t, up)
      cls == classifyError(status, FALSE)
  IN IF status = 304
       THEN [rl |-> absorbedStore, absorbed |-> 1, classified |-> 0,
             errClass |-> prevClass, fnErr |-> FALSE]
     ELSE IF status >= 400
       THEN [rl |-> absorbedStore, absorbed |-> 1, classified |-> 1,
             errClass |-> cls, fnErr |-> shouldRetry(cls)]
     ELSE [rl |-> absorbedStore, absorbed |-> 1, classified |-> 0,
           errClass |-> prevClass, fnErr |-> FALSE]

----------------------------------------------------------------------------
(* pkg/cache: entries and the manager, over the Redis key of the followed
   request.  The key is Absent or holds one record: the JSON document of
   the stored entry and the instant at which its Redis TTL runs out.
   Header values and ETags are byte strings (sequences of 0..255), bodies
   are opaque tokens *)

DefaultTTL == 300000

(* What a response carries for the cache: the body, the ETag (empty when
   absent), whether it has a Last-Modified header, and the Expires header,
   if any, in milliseconds relative to the second of the response *)
NoContent == [body |-> "", etag |-> <<>>, lastmod |-> FALSE, hasExp |-> FALSE, exp |-> 0]

Contents ==
  { [body |-> "A", etag |-> <<97>>, lastmod |-> FALSE, hasExp |-> TRUE, exp |-> 2000],
    [body |-> "B", etag |-> <<98>>, lastmod |-> FALSE, hasExp |-> TRUE, exp |-> 2000],
    [body |-> "A", etag |-> <<97>>, lastmod |-> FALSE, hasExp |-> TRUE, exp |-> -1000],
    [body |-> "A", etag |-> <<>>,  lastmod |-> TRUE,  hasExp |-> TRUE, exp |-> 2000],
    [body |-> "A", etag |-> <<>>,  lastmod |-> FALSE, hasExp |-> FALSE, exp |-> 0] }

(* resp.Header: the headers of a response that the cache looks at *)
HeaderOf(content) ==
  [etag |-> content.etag, lastmod |-> content.lastmod,
   hasExp |-> content.hasExp, exp |-> content.exp]

(* The contents a response of status st can carry: only what a 200 or a
   304 carries is looked at *)
ResponseContents(st) == IF st \in {200, 304} THEN Contents ELSE {NoContent}

(* http.ParseTime of the Expires header: an HTTP date has whole seconds *)
HeaderExpires(content, t) == (t \div 1000) * 1000 + content.exp

(* Mutant: an Expires header in the past is treated like a missing one *)
parseExpires_PastGetsDefault(content, t) ==
  IF ~content.hasExp THEN t + DefaultTTL
  ELSE IF HeaderExpires(content, t) < t THEN t + DefaultTTL
  ELSE HeaderExpires(content, t)

(* parseExpires: the header, now + DefaultTTL without one, now for one in
   the past *)
parseExpires(content, t) ==
  IF ~content.hasExp THEN t + DefaultTTL
  ELSE IF HeaderExpires(content, t) < t THEN t
  ELSE HeaderExpires(content, t)

ResponseToEntry(status, content, t) ==
  [Data |-> content.body, ETag |-> content.etag,
   Expires |-> parseExpires(content, t),
   LastModified |-> content.lastmod, StatusCode |-> status,
   Headers |-> HeaderOf(content)]

(* CacheEntry.IsExpired: time.Now().After(e.Expires) *)
IsExpired(e, t) == t > e.Expires

(* CacheEntry.TTL *)
TTL(e, t) == IF e.Expires - t < 0 THEN 0 ELSE e.Expires - t

ShouldMakeConditionalRequest(entry) ==
  entry # Absent /\ (entry[1].ETag # <<>> \/ entry[1].LastModified)

(* encoding/json writes a string coerced to valid UTF-8: every byte that
   does not start a well-formed UTF-8 sequence becomes U+FFFD *)
ReplacementChar == <<239, 191, 189>>

IsCont(b) == b >= 128 /\ b <= 191

(* Length of the well-formed UTF-8 sequence at the head of s, 0 if none *)
RuneLen(s) ==
  LET b == s[1]
      n == Len(s)
  IN IF b < 128 THEN 1
     ELSE IF b >= 194 /\ b <= 223
       THEN IF n >= 2 /\ IsCont(s[2]) THEN 2 ELSE 0
     ELSE IF b >= 224 /\ b <= 239
       THEN IF /\ n >= 3 /\ IsCont(s[2]) /\ IsCont(s[3])
               /\ (b = 224 => s[2] >= 160)
               /\ (b = 237 => s[2] <= 159)
              THEN 3 ELSE 0
     ELSE IF b >= 240 /\ b <= 244
       THEN IF /\ n >= 4 /\ IsCont(s[2]) /\ IsCont(s[3]) /\ IsCont(s[4])
               /\ (b = 240 => s[2] >= 144)
               /\ (b = 244 => s[2] <= 143)
              THEN 4 ELSE 0
     ELSE 0

RECURSIVE ToValidUTF8(_)
ToValidUTF8(s) ==
  IF s = <<>> THEN <<>>
  ELSE IF RuneLen(s) = 0 THEN ReplacementChar \o ToValidUTF8(Tail(s))
  ELSE SubSeq(s, 1, RuneLen(s))
         \o ToValidUTF8(SubSeq(s, RuneLen(s) + 1, Len(s)))

(* json.Marshal(entry): the members of the JSON object.  []byte is written
   in base64, strings as JSON strings, instants in RFC 3339 with
   nanoseconds *)
Marshal(e) ==
  [data |-> <<"base64", e.Data>>, etag |-> ToValidUTF8(e.ETag),
   expires |-> e.Expires, last_modified |-> e.LastModified,
   status_code |-> e.StatusCode,
   headers |-> [e.Headers EXCEPT !.etag = ToValidUTF8(@)]]

(* json.Unmarshal(data, &entry) of a document written by Marshal *)
Unmarshal(d) ==
  [Data |-> d.data[2], ETag |-> d.etag, Expires |-> d.expires,
   LastModified |-> d.last_modified, StatusCode |-> d.status_code,
   Headers |-> d.headers]

(* Manager.Delete: DEL key; the key stays when the command fails *)
ManagerDelete(store, up) == IF up THEN Absent ELSE store

(* json.Unmarshal succeeds on the document: the "data" member of a
   CacheEntry must be a base64 string *)
Decodes(d) == d.data[1] = "base64"

(* Manager.Get: the key after the call, the entry returned (Absent for
   nil) and the error: "nil", "miss", "redis" or "invalid" (ErrInvalidEntry).
   delUp tells whether the DEL of a stale record succeeds; Get ignores its
   error *)
ManagerGet(store, t, up, delUp) ==
  IF ~up THEN [cache |-> store, entry |-> Absent, err |-> "redis"]
  ELSE IF store = Absent
    THEN [cache |-> store, entry |-> Absent, err |-> "miss"]
  ELSE IF ~Decodes(store[1].data)
    THEN [cache |-> store, entry |-> Absent, err |-> "invalid"]
  ELSE IF IsExpired(Unmarshal(store[1].data), t)
    THEN [cache |-> ManagerDelete(store, delUp), entry |-> Absent,
          err |-> "miss"]
  ELSE [cache |-> store, entry |-> <<Unmarshal(store[1].data)>>,
        err |-> "nil"]

(* Mutant: Set writes the entry whatever time it has left *)
ManagerSet_NoTTLCheck(store, e, t, up) ==
  IF ~up THEN [cache |-> store, err |-> "redis"]
  ELSE [cache |-> <<[data |-> Marshal(e), ttlAt |-> t + TTL(e, t)]>>,
        err |-> "nil"]

(* Manager.Set: SET key data PX ttl, unless the entry has no time left *)
ManagerSet(store, e, t, up) ==
  IF TTL(e, t) <= 0 THEN [cache |-> store, err |-> "nil"]
  ELSE IF ~up THEN [cache |-> store, err |-> "redis"]
  ELSE [cache |-> <<[data |-> Marshal(e), ttlAt |-> t + TTL(e, t)]>>,
        err |-> "nil"]

(* Mutant: UpdateTTL writes an entry that holds nothing but the new
   expiration *)
ManagerUpdateTTL_Blank(store, newExpires, t, up) ==
  LET g == ManagerGet(store, t, up, up)
  IN IF g.err # "nil" THEN [cache |-> g.cache, err |-> g.err]
     ELSE ManagerSet(g.cache,
                     [g.entry[1] EXCEPT !.Expires = newExpires,
                                        !.ETag = <<>>], t, up)

(* Manager.UpdateTTL: Get, replace Expires, Set *)
ManagerUpdateTTL(store, newExpires, t, up) ==
  LET g == ManagerGet(store, t, up, up)
  IN IF g.err # "nil" THEN [cache |-> g.cache, err |-> g.err]
     ELSE ManagerSet(g.cache, [g.entry[1] EXCEPT !.Expires = newExpires],
                     t, up)

(* CacheKey and CacheKey.String.  Strings are byte strings; a map is a
   function from names to values, url.Values a function from names to
   sequences of values *)
EmptyMap == << >>

SlashByte == 47

ColonByte == 58

EqualsByte == 61

(* "esi" and "char=" *)
EsiBytes == <<101, 115, 105>>

CharBytes == <<99, 104, 97, 114, 61>>

RECURSIVE TrimLeft(_, _)
TrimLeft(s, b) ==
  IF s # <<>> /\ Head(s) = b THEN TrimLeft(Tail(s), b) ELSE s

RECURSIVE TrimRight(_, _)
TrimRight(s, b) ==
  IF s # <<>> /\ s[Len(s)] = b
    THEN TrimRight(SubSeq(s, 1, Len(s) - 1), b) ELSE s

(* strings.Trim(s, "/") *)
Trim(s, b) == TrimRight(TrimLeft(s, b), b)

(* a < b for Go strings: bytewise, a proper prefix first *)
RECURSIVE StringLess(_, _)
StringLess(a, b) ==
  IF b = <<>> THEN FALSE
  ELSE IF a = <<>> THEN TRUE
  ELSE IF Head(a) # Head(b) THEN Head(a) < Head(b)
  ELSE StringLess(Tail(a), Tail(b))

(* x put into the sorted sequence srt *)
RECURSIVE InsertSorted(_, _)
InsertSorted(x, srt) ==
  IF srt = <<>> THEN <<x>>
  ELSE IF StringLess(x, Head(srt)) THEN <<x>> \o srt
  ELSE <<Head(srt)>> \o InsertSorted(x, Tail(srt))

(* sort.Strings(keys) *)
RECURSIVE SortStrings(_)
SortStrings(keys) ==
  IF keys = <<>> THEN <<>>
  ELSE InsertSorted(Head(keys), SortStrings(Tail(keys)))

(* fmt.Sprintf("%d", n) for n > 0 *)
RECURSIVE Itoa(_)
Itoa(n) ==
  IF n < 10 THEN <<48 + n>>
  ELSE Itoa(n \div 10) \o <<48 + (n % 10)>>

(* strings.Join(parts, ":") *)
RECURSIVE Join(_)
Join(parts) ==
  IF parts = <<>> THEN <<>>
  ELSE IF Len(parts) = 1 THEN parts[1]
  ELSE parts[1] \o <<ColonByte>> \o Join(Tail(parts))

(* url.Values.Get: the first value of the name, "" without one *)
ValuesGet(values, name) ==
  IF values[name] = <<>> THEN <<>> ELSE values[name][1]

(* The orders in which a range over a map with these names can run *)
RangeOrders(names) ==
  { o \in [1..Cardinality(names) -> names] :
      \A i, j \in 1..Cardinality(names) : i # j => o[i] # o[j] }

(* name=value for each name of the sorted sequence *)
RECURSIVE PathParts(_, _)
PathParts(keys, params) ==
  IF keys = <<>> THEN <<>>
  ELSE <<Head(keys) \o <<EqualsByte>> \o params[Head(keys)]>>
         \o PathParts(Tail(keys), params)

RECURSIVE QueryParts(_, _)
QueryParts(keys, values) ==
  IF keys = <<>> THEN <<>>
  ELSE <<Head(keys) \o <<EqualsByte>> \o ValuesGet(values, Head(keys))>>
         \o QueryParts(Tail(keys), values)

(* Mutant: the names are written in the order the range yields them *)
String_Unsorted(k, pathOrder, queryOrder) ==
  Join(<<EsiBytes>>
       \o (IF Trim(k.Endpoint, SlashByte) # <<>>
             THEN <<Trim(k.Endpoint, SlashByte)>> ELSE <<>>)
       \o PathParts(pathOrder, k.PathParams)
       \o QueryParts(queryOrder, k.QueryParams)
       \o (IF k.CharacterID > 0
             THEN <<CharBytes \o Itoa(k.CharacterID)>> ELSE <<>>))

(* CacheKey.String, with the orders in which the two ranges over the maps
   yield the names *)
String(k, pathOrder, queryOrder) ==
  Join(<<EsiBytes>>
       \o (IF Trim(k.Endpoint, SlashByte) # <<>>
             THEN <<Trim(k.Endpoint, SlashByte)>> ELSE <<>>)
       \o PathParts(SortStrings(pathOrder), k.PathParams)
       \o QueryParts(SortStrings(queryOrder), k.QueryParams)
       \o (IF k.CharacterID > 0
             THEN <<CharBytes \o Itoa(k.CharacterID)>> ELSE <<>>))

(* The cache keys under comparison: none outside SpecKey *)
NoKeys == << >>

(* No FetchAllPages call *)
NoPages == << >>

(* The last Manager call made directly by a caller of pkg/cache: its name,
   its arguments, the key as it was before, what it returned and when; a
   Get also keeps the call that came before it *)
NoMgr == [op |-> "none", arg |-> Absent, newExpires |-> 0, pre |-> Absent,
          ret |-> Absent, err |-> "nil", at |-> 0, after |-> <<>>]

(* cache.EntryToResponse: the response synthesized from a cached entry *)
EntryToResponse(entry) ==
  [status |-> entry[1].StatusCode, body |-> entry[1].Data]

----------------------------------------------------------------------------
(* Tracker operations, one Redis command per step (SpecTracker) *)

IdleProc == [pc |-> "idle", op |-> "none", er |-> Absent, rs |-> Absent,
             lu |-> Absent, tuple |-> EmptyStore, ret |-> "none",
             read |-> EmptyStore, kind |-> "none", budget |-> 0,
             resetAt |-> 0, at |-> 0, wake |-> 0, ops |-> 0,
             concurrent |-> FALSE,
             hdr |-> [remain |-> HAbsent, reset |-> HAbsent]]

NoHeaders == [remain |-> HAbsent, reset |-> HAbsent]

(* client.DefaultConfig, milliseconds *)
DefaultConfig ==
  [ErrorThreshold |-> 10, MaxConcurrency |-> 5, MaxRetries |-> 3,
   InitialBackoff |-> 1000]

(* A Do call that has not started *)
IdleCall == [pc |-> "off", cancelled |-> FALSE, attempt |-> 0, backoff |-> 0,
             errClass |-> ErrorClassNone, loopClass |-> ErrorClassNone,
             last |-> -1, lastHdr |-> NoHeaders, wake |-> 0,
             result |-> "none", status |-> 0, roundTrips |-> 0,
             responses |-> 0, absorbed |-> 0, classified |-> 0,
             retries |-> 0, rlAtStart |-> EmptyStore, startAt |-> 0,
             gate |-> "none", gateKind |-> "none", gateBudget |-> 0,
             sent |-> FALSE, fnCalls |-> 0, hist |-> <<>>, waits |-> <<>>,
             asleepAt |-> 0, respAt |-> -1, cancelledAt |-> -1,
             cancelledIn |-> "none", retryErr |-> "none",
             entry |-> Absent, lookup |-> "none", conditional |-> FALSE,
             body |-> "", seq |-> 1, prev |-> <<>>,
             lastContent |-> NoContent, charID |-> 0,
             cacheKey |-> Absent, bodyOpen |-> FALSE, handed |-> FALSE,
             leaks |-> 0]

NoUpstream == [requests |-> 0, inflight |-> 0]

(* Some other goroutine is inside UpdateFromHeaders' pipeline *)
WriterActive(p) ==
  \E q \in Procs \ {p} : tp[q].pc \in {"set1", "set2", "set3"}

InitTracker ==
  /\ now = 0
  /\ rl \in SeedStores
  /\ redisUp \in BOOLEAN
  /\ tp = [p \in Procs |-> IdleProc]
  /\ mgr = NoMgr
  /\ ck = NoKeys
  /\ pg = NoPages
  /\ tuples = {rl}
  /\ lastLanded = rl
  /\ cfg = DefaultConfig
  /\ call = [c \in Calls |-> IdleCall]
  /\ upstream = NoUpstream
  /\ cache = Absent

TrackerFrame ==
  UNCHANGED <<redisUp, cfg, call, upstream, cache, mgr, ck, pg>>

(* Enter GetState or ShouldAllowRequest *)
TBeginRead(p) ==
  /\ tp[p].pc = "idle"
  /\ tp[p].ops < MaxOps
  /\ \E op \in {"GetState", "ShouldAllowRequest"} :
       tp' = [tp EXCEPT ![p] = [IdleProc EXCEPT !.pc = "get1", !.op = op,
                                                !.ops = tp[p].ops]]
  /\ UNCHANGED <<now, rl, tuples, lastLanded>>
  /\ TrackerFrame

(* GetState: GET errors_remaining *)
TGet1(p) ==
  /\ tp[p].pc = "get1"
  /\ tp' = [tp EXCEPT ![p] =
       IF redisUp
         THEN [@ EXCEPT !.pc = "get2", !.er = rl.errors_remaining,
                        !.concurrent = WriterActive(p)]
         ELSE [@ EXCEPT !.pc = "idle", !.ret = "error", !.kind = "error",
                        !.ops = @ + 1]]
  /\ UNCHANGED <<now, rl, tuples, lastLanded>>
  /\ TrackerFrame

(* GetState: GET reset_timestamp *)
TGet2(p) ==
  /\ tp[p].pc = "get2"
  /\ tp' = [tp EXCEPT ![p] =
       [@ EXCEPT !.pc = "get3", !.rs = rl.reset_timestamp,
                 !.concurrent = @ \/ WriterActive(p)]]
  /\ UNCHANGED <<now, rl, tuples, lastLanded>>
  /\ TrackerFrame

(* GetState: GET last_update, build the state; ShouldAllowRequest then
   decides: block, throttle (time.Sleep(1s)) or allow *)
TGet3(p) ==
  /\ tp[p].pc = "get3"
  /\ LET r == GetStateResult(tp[p].er, tp[p].rs, rl.last_update, now)
         d == GateDecision(r)
         base == [tp[p] EXCEPT !.lu = rl.last_update,
                    !.read = [errors_remaining |-> tp[p].er,
                              reset_timestamp |-> tp[p].rs,
                              last_update |-> rl.last_update],
                    !.kind = r.kind,
                    !.budget = r.state.ErrorsRemaining,
                    !.resetAt = r.state.ResetAt,
                    !.at = now,
                    !.concurrent = @ \/ WriterActive(p)]
     IN tp' = [tp EXCEPT ![p] =
          IF tp[p].op = "GetState"
            THEN [base EXCEPT !.pc = "idle", !.ops = @ + 1,
                     !.ret = IF r.kind = "error" THEN "error" ELSE "state"]
          ELSE IF d = "throttle"
            THEN [base EXCEPT !.pc = "sleep", !.ret = "throttle",
                              !.wake = now + ThrottleSleepMs]
          ELSE [base EXCEPT !.pc = "idle", !.ops = @ + 1, !.ret = d]]
  /\ UNCHANGED <<now, rl, tuples, lastLanded>>
  /\ TrackerFrame

(* ShouldAllowRequest: the throttle sleep is over, return true *)
TWake(p) ==
  /\ tp[p].pc = "sleep"
  /\ now >= tp[p].wake
  /\ tp' = [tp EXCEPT ![p] = [@ EXCEPT !.pc = "idle", !.ops = @ + 1,
                                       !.ret = "allow_throttled"]]
  /\ UNCHANGED <<now, rl, tuples, lastLanded>>
  /\ TrackerFrame

(* UpdateFromHeaders: parse both headers, build the state, queue the
   three SETs in the pipeline *)
TUpdateFromHeaders(p) ==
  /\ tp[p].pc = "idle"
  /\ tp[p].ops < MaxOps
  /\ \E h \in TrackerHeaders :
       LET r == ParseHeaders(h, now)
       IN /\ tp' = [tp EXCEPT ![p] =
               IF r.kind = "write"
                 THEN [IdleProc EXCEPT !.pc = "set1",
                          !.op = "UpdateFromHeaders", !.tuple = r.tuple,
                          !.hdr = h, !.ops = tp[p].ops]
                 ELSE [IdleProc EXCEPT !.op = "UpdateFromHeaders",
                          !.ret = IF r.kind = "noop" THEN "nil" ELSE "error",
                          !.hdr = h, !.ops = tp[p].ops + 1]]
          /\ tuples' = IF r.kind = "write" /\ redisUp
                         THEN tuples \cup {r.tuple} ELSE tuples
  /\ UNCHANGED <<now, rl, lastLanded>>
  /\ TrackerFrame

(* pipe.Exec: SET errors_remaining reaches the server.  Pipeline() is a
   plain pipeline, not MULTI/EXEC: commands of other connections may run
   between the three SETs *)
TSet1(p) ==
  /\ tp[p].pc = "set1"
  /\ IF redisUp
       THEN /\ rl' = [rl EXCEPT !.errors_remaining =
                                   tp[p].tuple.errors_remaining]
            /\ tp' = [tp EXCEPT ![p] = [@ EXCEPT !.pc = "set2"]]
       ELSE /\ rl' = rl
            /\ tp' = [tp EXCEPT ![p] = [@ EXCEPT !.pc = "idle",
                                          !.ret = "error", !.ops = @ + 1]]
  /\ UNCHANGED <<now, tuples, lastLanded>>
  /\ TrackerFrame

(* pipe.Exec: SET reset_timestamp *)
TSet2(p) ==
  /\ tp[p].pc = "set2"
  /\ rl' = [rl EXCEPT !.reset_timestamp = tp[p].tuple.reset_timestamp]
  /\ tp' = [tp EXCEPT ![p] = [@ EXCEPT !.pc = "set3"]]
  /\ UNCHANGED <<now, tuples, lastLanded>>
  /\ TrackerFrame

(* pipe.Exec: SET last_update, Exec returns *)
TSet3(p) ==
  /\ tp[p].pc = "set3"
  /\ rl' = [rl EXCEPT !.last_update = tp[p].tuple.last_update]
  /\ tp' = [tp EXCEPT ![p] = [@ EXCEPT !.pc = "idle", !.ret = "nil",
                                       !.ops = @ + 1]]
  /\ lastLanded' = tp[p].tuple
  /\ UNCHANGED <<now, tuples>>
  /\ TrackerFrame

(* Instants at which something changes for the tracker: the end of a
   throttle sleep, and the first instant after the stored reset *)
TrackerInstants ==
  {tp[p].wake : p \in {q \in Procs : tp[q].pc = "sleep"}}
  \cup (IF rl.reset_timestamp = Absent THEN {}
        ELSE {FromUnix(rl.reset_timestamp[1]) + 1})

(* The wall clock advances; a sleeper is woken no later than its deadline *)
TAdvance ==
  /\ \E t \in TrackerInstants :
       /\ t > now
       /\ t <= MaxTime
       /\ \A p \in Procs : tp[p].pc = "sleep" => t <= tp[p].wake
       /\ now' = t
  /\ UNCHANGED <<rl, tp, tuples, lastLanded>>
  /\ TrackerFrame

NextTracker ==
  \/ \E p \in Procs : TBeginRead(p)
  \/ \E p \in Procs : TGet1(p)
  \/ \E p \in Procs : TGet2(p)
  \/ \E p \in Procs : TGet3(p)
  \/ \E p \in Procs : TWake(p)
  \/ \E p \in Procs : TUpdateFromHeaders(p)
  \/ \E p \in Procs : TSet1(p)
  \/ \E p \in Procs : TSet2(p)
  \/ \E p \in Procs : TSet3(p)
  \/ TAdvance

SpecTracker == InitTracker /\ [][NextTracker]_vars

----------------------------------------------------------------------------
(* Goroutines of one replica that absorb the headers of a response and then
   read the state back (SpecAbsorb) *)

(* GetState is called by the goroutine whose UpdateFromHeaders has
   returned; the headers and the tuple it absorbed stay on record *)
TReadAfterUpdate(p) ==
  /\ tp[p].pc = "idle"
  /\ tp[p].op = "UpdateFromHeaders"
  /\ tp' = [tp EXCEPT ![p] =
       [@ EXCEPT !.pc = "get1", !.op = "GetState", !.ret = "none",
                 !.concurrent = FALSE]]
  /\ UNCHANGED <<now, rl, tuples, lastLanded>>
  /\ TrackerFrame

NextAbsorb ==
  \/ \E p \in Procs : TUpdateFromHeaders(p)
  \/ \E p \in Procs : TSet1(p)
  \/ \E p \in Procs : TSet2(p)
  \/ \E p \in Procs : TSet3(p)
  \/ \E p \in Procs : TReadAfterUpdate(p)
  \/ \E p \in Procs : TGet1(p)
  \/ \E p \in Procs : TGet2(p)
  \/ \E p \in Procs : TGet3(p)
  \/ TAdvance

(* The replica starts on a Redis without tracker keys *)
InitAbsorb == InitTracker /\ rl = EmptyStore

SpecAbsorb == InitAbsorb /\ [][NextAbsorb]_vars
----------------------------------------------------------------------------
(* Client.Do, one step per suspension point (Spec) *)

(* Stores a client can find at start: empty, all three keys, and the two
   keys seeded by TestIntegration_RateLimitIntegration *)
DoSeedStores ==
  {EmptyStore}
  \cup { [errors_remaining |-> <<b>>, reset_timestamp |-> <<60>>,
          last_update |-> <<LU(0)>>] : b \in {3, 7, 100} }
  \cup { [errors_remaining |-> <<3>>, reset_timestamp |-> <<60>>,
          last_update |-> Absent] }

(* Config.ErrorThreshold values that New accepts (>= 5) *)
ErrorThresholds == {5, 10}

(* Config.InitialBackoff: the default and the 100ms of TestRetry5xxErrors *)
InitialBackoffs == {100, 1000}

(* Configurations a client is built with: the default with one field set *)
Configs ==
  { [DefaultConfig EXCEPT !.ErrorThreshold = e] : e \in ErrorThresholds }
  \cup { [DefaultConfig EXCEPT !.InitialBackoff = b] : b \in InitialBackoffs }

(* Cache keys a client can find at start: no entry, or the entry of an
   earlier 200 response that is still fresh *)
DoSeedCaches ==
  { Absent,
    <<[data |-> Marshal(ResponseToEntry(200,
                  [body |-> "A", etag |-> <<97>>, lastmod |-> FALSE,
                   hasExp |-> TRUE, exp |-> 2000], 0)),
       ttlAt |-> 2000]>> }

(* Delays after which a caller cancels a call that has gone to sleep *)
CancelDelays == {500}

(* A client starts with the default configuration on any seeded store and
   cache, or with another configuration on a fresh Redis *)
Init ==
  /\ now = 0
  /\ rl \in DoSeedStores
  /\ redisUp \in BOOLEAN
  /\ cfg \in Configs
  /\ cache \in DoSeedCaches
  /\ cfg = DefaultConfig \/ (rl = EmptyStore /\ cache = Absent)
  /\ tp = [p \in Procs |-> IdleProc]
  /\ mgr = NoMgr
  /\ ck = NoKeys
  /\ pg = NoPages
  /\ tuples = {}
  /\ lastLanded = EmptyStore
  /\ call = [c \in Calls |-> IdleCall]
  /\ upstream = NoUpstream

DoFrame == UNCHANGED <<redisUp, tp, tuples, lastLanded, cfg, mgr, ck, pg>>

(* The request of the followed calls: GET /a?b=1 *)
RequestPath == <<47, 97>>

RequestQuery == (<<98>> :> << <<49>> >>)

(* Step 2 of Do: the cache key is built from the path and the query of the
   request; CharacterID keeps its zero value *)
DoCacheKey(charID) ==
  [Endpoint |-> RequestPath, PathParams |-> EmptyMap,
   QueryParams |-> RequestQuery, CharacterID |-> 0]

(* The caller invokes Do with a context that is cancelled or not, as
   drawn from cancels, and that carries a caller identity drawn from ids
   (0: none) *)
DoStartWith(c, cancels, ids) ==
  /\ call[c].pc = "off"
  /\ \E cn \in cancels, id \in ids :
       call' = [call EXCEPT ![c] =
         [@ EXCEPT !.pc = "gate", !.cancelled = cn, !.charID = id,
                   !.cancelledAt = IF cn THEN now ELSE -1,
                   !.cancelledIn = IF cn THEN "off" ELSE "none",
                   !.rlAtStart = rl, !.startAt = now]]
  /\ UNCHANGED <<now, rl, upstream, cache>>
  /\ DoFrame

(* The caller invokes Do for a public request (no caller identity); its
   context may already be cancelled *)
DoStart(c) == DoStartWith(c, BOOLEAN, {0})

(* Error values.  An error is the set of errors that errors.Is finds in
   its Unwrap chain (wrapped) and the errors that only went into its
   message through %v (text) *)
ErrRetryExhausted == "retry attempts exhausted"

ErrContextCancelled == "context cancelled"

(* ctx.Err() of a cancelled context *)
ContextCanceled == "context canceled"

(* fmt.Errorf("request blocked: rate limit critical"): no %w operand *)
GateRefusalError == [wrapped |-> {}, text |-> {}]

(* The error the attempt closure returned last: the transport error of
   httpClient.Do, or an *ESIError with a nil Err for a retryable status *)
LastErr(rec) ==
  IF rec.last = 0
    THEN [wrapped |-> {"url.Error"} \cup
                      (IF rec.cancelled THEN {ContextCanceled} ELSE {}),
          text |-> {}]
    ELSE [wrapped |-> {"ESIError"}, text |-> {}]

(* fmt.Errorf with one %w operand and one %v operand *)
Errorf(w, v) ==
  [wrapped |-> {w}, text |-> v.wrapped \cup v.text]

(* What retryWithBackoff returns and Do hands to the caller *)
RetryError(rec) ==
  IF rec.retryErr = "retry_exhausted"
    THEN Errorf(ErrRetryExhausted, LastErr(rec))
  ELSE IF rec.retryErr = "cancelled"
    THEN Errorf(ErrContextCancelled,
                [wrapped |-> {ContextCanceled}, text |-> {}])
  ELSE LastErr(rec)

(* The error value of a call that ended with a terminal error *)
DoError(rec) ==
  IF rec.result = "rate_limit_critical" THEN GateRefusalError
  ELSE RetryError(rec)

(* Return from Do with a terminal error *)
Fail(rec, res) == [rec EXCEPT !.pc = "done", !.result = res]

(* Mutant: the cache is looked up without the expiration check *)
CacheLookup_NoExpiry(store, t, up, delUp) ==
  IF ~up THEN [cache |-> store, entry |-> Absent, err |-> "redis"]
  ELSE IF store = Absent
    THEN [cache |-> store, entry |-> Absent, err |-> "miss"]
  ELSE [cache |-> store, entry |-> <<Unmarshal(store[1].data)>>,
        err |-> "nil"]

(* Step 2 of Do: c.cache.Get(ctx, cacheKey) *)
CacheLookup(store, t, up, delUp) == ManagerGet(store, t, up, delUp)

(* Mutant: the cache is looked up before the decision of the gate is
   acted upon *)
DoGate_CacheFirst(c) ==
  /\ call[c].pc = "gate"
  /\ \E ctxErr \in {FALSE, call[c].cancelled} :
       LET r == GetStateResult(rl.errors_remaining, rl.reset_timestamp,
                               rl.last_update, now)
           d == IF ~redisUp \/ ctxErr THEN "error" ELSE GateDecision(r)
           g == ManagerGet(cache, now, redisUp /\ ~ctxErr, redisUp /\ ~ctxErr)
           rec == [call[c] EXCEPT !.gate = d,
                     !.gateKind = IF d = "error" THEN "error" ELSE r.kind,
                     !.gateBudget = IF d = "error" THEN 0
                                    ELSE r.state.ErrorsRemaining]
       IN /\ call' = [call EXCEPT ![c] =
               IF d = "error" THEN Fail(rec, "rate_limit_check")
               ELSE IF d = "block"
                 THEN Fail([rec EXCEPT !.entry = g.entry, !.lookup = g.err],
                           "rate_limit_critical")
               ELSE IF d = "throttle"
                 THEN [rec EXCEPT !.pc = "throttle", !.asleepAt = now,
                                  !.wake = now + ThrottleSleepMs]
               ELSE [rec EXCEPT !.pc = "cache"]]
          /\ cache' = IF d = "block" THEN g.cache ELSE cache
  /\ UNCHANGED <<now, rl, upstream>>
  /\ DoFrame

(* Step 1: rateLimiter.ShouldAllowRequest.  A Redis command issued on a
   cancelled context may fail with the context error *)
DoGate(c) ==
  /\ call[c].pc = "gate"
  /\ \E ctxErr \in {FALSE, call[c].cancelled} :
       LET r == GetStateResult(rl.errors_remaining, rl.reset_timestamp,
                               rl.last_update, now)
           d == IF ~redisUp \/ ctxErr THEN "error" ELSE GateDecision(r)
           rec == [call[c] EXCEPT !.gate = d,
                     !.gateKind = IF d = "error" THEN "error" ELSE r.kind,
                     !.gateBudget = IF d = "error" THEN 0
                                    ELSE r.state.ErrorsRemaining]
       IN call' = [call EXCEPT ![c] =
            IF d = "error" THEN Fail(rec, "rate_limit_check")
            ELSE IF d = "block" THEN Fail(rec, "rate_limit_critical")
            ELSE IF d = "throttle"
              THEN [rec EXCEPT !.pc = "throttle", !.asleepAt = now,
                               !.wake = now + ThrottleSleepMs]
            ELSE [rec EXCEPT !.pc = "cache"]]
  /\ UNCHANGED <<now, rl, upstream, cache>>
  /\ DoFrame

(* time.Sleep(1s) of the throttle is over *)
DoThrottleWake(c) ==
  /\ call[c].pc = "throttle"
  /\ now >= call[c].wake
  /\ call' = [call EXCEPT ![c] = [@ EXCEPT !.pc = "cache"]]
  /\ UNCHANGED <<now, rl, upstream, cache>>
  /\ DoFrame

(* Mutant: a lookup that fails with an error other than a miss ends the
   call *)
DoCacheGet_FailOnError(c) ==
  /\ call[c].pc = "cache"
  /\ \E ctxErr \in {FALSE, call[c].cancelled},
        delErr \in {FALSE, call[c].cancelled} :
       LET g == CacheLookup(cache, now, redisUp /\ ~ctxErr,
                            redisUp /\ ~delErr)
           k == DoCacheKey(call[c].charID)
           rec == [call[c] EXCEPT
                         !.cacheKey =
                            <<String(k, <<>>,
                                CHOOSE o \in RangeOrders(DOMAIN k.QueryParams) :
                                  TRUE)>>,
                         !.entry = g.entry, !.lookup = g.err,
                         !.conditional =
                            ShouldMakeConditionalRequest(g.entry)]
       IN /\ call' = [call EXCEPT ![c] =
               IF g.err \in {"redis", "invalid"}
                 THEN Fail(rec, "cache_get")
                 ELSE [rec EXCEPT !.pc = "send", !.attempt = 1]]
          /\ cache' = g.cache
  /\ UNCHANGED <<now, rl, upstream>>
  /\ DoFrame

(* Steps 2 and 3: look the key up in the cache (Get deletes a stale record
   and ignores the error of the delete) and put the conditional headers on
   the request when the entry has a validator.  A Redis command on a
   cancelled context may fail, the GET as well as the DEL *)
DoCacheGet(c) ==
  /\ call[c].pc = "cache"
  /\ \E ctxErr \in {FALSE, call[c].cancelled},
        delErr \in {FALSE, call[c].cancelled} :
       LET g == CacheLookup(cache, now, redisUp /\ ~ctxErr,
                            redisUp /\ ~delErr)
           k == DoCacheKey(call[c].charID)
       IN /\ call' = [call EXCEPT ![c] =
               [@ EXCEPT !.pc = "send", !.attempt = 1,
                         !.cacheKey =
                            <<String(k, <<>>,
                                CHOOSE o \in RangeOrders(DOMAIN k.QueryParams) :
                                  TRUE)>>,
                         !.entry = g.entry, !.lookup = g.err,
                         !.conditional =
                            ShouldMakeConditionalRequest(g.entry)]]
          /\ cache' = g.cache
  /\ UNCHANGED <<now, rl, upstream>>
  /\ DoFrame

(* Mutant: the loop looks at ctx.Done() before it calls the attempt *)
DoSend_CheckCtx(c) ==
  /\ call[c].pc = "send"
  /\ IF call[c].cancelled
       THEN /\ call' = [call EXCEPT ![c] =
                 [@ EXCEPT !.pc = "done", !.result = "cancelled"]]
            /\ upstream' = upstream
       ELSE /\ call' = [call EXCEPT ![c] =
                 [@ EXCEPT !.pc = "inflight", !.sent = TRUE,
                           !.fnCalls = @ + 1,
                           !.last = -1, !.lastHdr = NoHeaders,
                           !.roundTrips = @ + 1]]
            /\ upstream' = [upstream EXCEPT !.requests = @ + 1,
                                            !.inflight = @ + 1]
  /\ UNCHANGED <<now, rl, cache>>
  /\ DoFrame

(* httpClient.Do: the request leaves, unless the context is already
   cancelled (the transport then fails without a round trip) *)
DoSend(c) ==
  /\ call[c].pc = "send"
  /\ IF call[c].cancelled
       THEN /\ call' = [call EXCEPT ![c] =
                 [@ EXCEPT !.pc = "inflight", !.sent = FALSE,
                           !.fnCalls = @ + 1,
                           !.last = -1, !.lastHdr = NoHeaders]]
            /\ upstream' = upstream
       ELSE /\ call' = [call EXCEPT ![c] =
                 [@ EXCEPT !.pc = "inflight", !.sent = TRUE,
                           !.fnCalls = @ + 1,
                           !.last = -1, !.lastHdr = NoHeaders,
                           !.roundTrips = @ + 1]]
            /\ upstream' = [upstream EXCEPT !.requests = @ + 1,
                                            !.inflight = @ + 1]
  /\ UNCHANGED <<now, rl, cache>>
  /\ DoFrame

(* retryWithBackoff after the attempt returned: nil ends the loop and Do
   returns the response; an error is retried unless its class is not
   retryable or the attempts are used up.  The class of the loop is the one
   the classifier yields at the first error (config is computed once) *)
LoopAfterAttempt(rec, fnErr, j) ==
  IF ~fnErr
    THEN [rec EXCEPT !.pc = "done", !.result = "response",
                     !.retryErr = "nil"]
  ELSE LET cls == IF rec.attempt = 1 THEN rec.errClass ELSE rec.loopClass
           config == RetryConfigForErrorClass(cls)
           backoff == IF rec.attempt = 1 THEN config.InitialBackoff
                      ELSE rec.backoff
           bound == [rec EXCEPT !.loopClass = cls, !.backoff = backoff]
       IN IF ~shouldRetry(cls)
            THEN Fail([bound EXCEPT !.retryErr = "error"], "error")
          ELSE IF rec.attempt >= config.MaxAttempts
            THEN Fail([bound EXCEPT !.retryErr = "retry_exhausted"],
                      "retry_exhausted")
          ELSE [bound EXCEPT !.pc = "backoff", !.retries = @ + 1,
                  !.asleepAt = now,
                  !.waits = Append(@, [backoff |-> backoff,
                                       wait |-> (backoff * j) \div 100]),
                  !.wake = now + (backoff * j) \div 100]

(* Mutant: the attempt closure does not close the body of a response it
   turns into a retryable error *)
BodyOpenAfterAttempt_NoClose(arrived, fnErr) == arrived

(* The body of resp when the attempt closure returns: open if a response
   arrived, unless the closure closed it before returning a retryable
   error *)
BodyOpenAfterAttempt(arrived, fnErr) == arrived /\ ~fnErr

(* Response bodies over one attempt.  resp is assigned the result of
   httpClient.Do (nil on a transport error): a body still open in the old
   resp is lost.  When the loop has ended, Do closes the body on an error
   and on a 304 and hands every other response to the caller *)
WithBodies(before, after, arrived, fnErr, st) ==
  LET open == BodyOpenAfterAttempt(arrived, fnErr)
      lost == before.leaks + (IF before.bodyOpen THEN 1 ELSE 0)
  IN IF after.pc # "done"
       THEN [after EXCEPT !.leaks = lost, !.bodyOpen = open]
     ELSE IF after.retryErr # "nil" \/ st = 304
       THEN [after EXCEPT !.leaks = lost, !.bodyOpen = FALSE]
     ELSE [after EXCEPT !.leaks = lost, !.bodyOpen = open, !.handed = TRUE]

(* The attempt returns a transport error (httpClient.Do failed, which it
   always does on a cancelled context): class network, then the retry loop
   decides *)
DoTransportError(c) ==
  /\ call[c].pc = "inflight"
  /\ \E j \in JitterPercents :
       LET rec == [call[c] EXCEPT !.last = 0, !.lastHdr = NoHeaders,
                     !.hist = Append(@, 0),
                     !.errClass = classifyError(0, TRUE)]
       IN call' = [call EXCEPT ![c] =
            WithBodies(call[c], LoopAfterAttempt(rec, TRUE, j),
                       FALSE, TRUE, 0)]
  /\ upstream' = IF call[c].sent
                   THEN [upstream EXCEPT !.inflight = @ - 1]
                   ELSE upstream
  /\ UNCHANGED <<now, rl, cache>>
  /\ DoFrame

(* Mutant: every response below 300 is stored, not only a 200 *)
PostLoop_CachesAll2xx(store, entry, st, content, t, up) ==
  IF st = 304
    THEN [cache |-> IF ~content.hasExp THEN store
                    ELSE ManagerUpdateTTL(store, HeaderExpires(content, t),
                                          t, up).cache,
          result |-> IF entry = Absent THEN "no_entry" ELSE "response",
          status |-> IF entry = Absent THEN 0
                     ELSE EntryToResponse(entry).status,
          body |-> IF entry = Absent THEN ""
                   ELSE EntryToResponse(entry).body]
  ELSE IF st < 300
    THEN [cache |-> IF TTL(ResponseToEntry(st, content, t), t) > 0
                      THEN ManagerSet(store, ResponseToEntry(st, content, t),
                                      t, up).cache
                      ELSE store,
          result |-> "response", status |-> st, body |-> content.body]
  ELSE [cache |-> store, result |-> "response", status |-> st,
        body |-> content.body]

(* Mutant: a 304 is handed to the caller as it came, like any other
   status that is not 200 *)
PostLoop_PassThrough304(store, entry, st, content, t, up) ==
  IF st = 200
    THEN [cache |-> IF TTL(ResponseToEntry(st, content, t), t) > 0
                      THEN ManagerSet(store, ResponseToEntry(st, content, t),
                                      t, up).cache
                      ELSE store,
          result |-> "response", status |-> st, body |-> content.body]
  ELSE [cache |-> store, result |-> "response", status |-> st,
        body |-> content.body]

(* Steps 7 and 8 of Do, once the retry loop has returned nil with the
   response (st, content): on 304 refresh the TTL of the entry from the
   Expires header and answer from the entry read in step 2; on 200 build an
   entry and store it if it has time left; else hand the response over.
   Yields the key after the call and what the caller receives *)
PostLoop(store, entry, st, content, t, up) ==
  IF st = 304
    THEN [cache |-> IF ~content.hasExp THEN store
                    ELSE ManagerUpdateTTL(store, HeaderExpires(content, t),
                                          t, up).cache,
          result |-> IF entry = Absent THEN "no_entry" ELSE "response",
          status |-> IF entry = Absent THEN 0
                     ELSE EntryToResponse(entry).status,
          body |-> IF entry = Absent THEN ""
                   ELSE EntryToResponse(entry).body]
  ELSE IF st = 200
    THEN [cache |-> IF TTL(ResponseToEntry(st, content, t), t) > 0
                      THEN ManagerSet(store, ResponseToEntry(st, content, t),
                                      t, up).cache
                      ELSE store,
          result |-> "response", status |-> st, body |-> content.body]
  ELSE [cache |-> store, result |-> "response", status |-> st,
        body |-> content.body]

(* The attempt returns a response: it goes through UpdateFromHeaders and
   the classification, then the retry loop decides; when the loop returns
   nil, Do finishes with the cache handling.  The upstream answers with a
   status of statuses and budget headers of headers *)
DoResponseWith(c, statuses, headers) ==
  /\ call[c].pc = "inflight"
  /\ call[c].sent
  /\ ~call[c].cancelled
  /\ \E st \in statuses, h \in headers :
     \E content \in ResponseContents(st) :
     \E j \in IF AfterResponse(rl, st, h, now, redisUp,
                               call[c].errClass).fnErr
               THEN JitterPercents ELSE {100} :
       LET r == AfterResponse(rl, st, h, now, redisUp, call[c].errClass)
           post == PostLoop(cache, call[c].entry, st, content, now, redisUp)
           rec == [call[c] EXCEPT !.last = st, !.lastHdr = h,
                     !.lastContent = content,
                     !.hist = Append(@, st),
                     !.respAt = IF @ = -1 THEN now ELSE @,
                     !.errClass = r.errClass,
                     !.responses = @ + 1,
                     !.absorbed = @ + r.absorbed,
                     !.classified = @ + r.classified]
           loop == LoopAfterAttempt(rec, r.fnErr, j)
       IN /\ call' = [call EXCEPT ![c] =
               WithBodies(call[c],
                          IF r.fnErr THEN loop
                          ELSE [loop EXCEPT !.result = post.result,
                                            !.status = post.status,
                                            !.body = post.body],
                          TRUE, r.fnErr, st)]
          /\ cache' = IF r.fnErr THEN cache ELSE post.cache
          /\ rl' = r.rl
  /\ upstream' = [upstream EXCEPT !.inflight = @ - 1]
  /\ UNCHANGED now
  /\ DoFrame

(* The attempt returns a response of any status, with or without budget
   headers *)
DoResponse(c) == DoResponseWith(c, Statuses, DoHeaders)

(* select: time.After(jitter) fires, next attempt *)
DoBackoffWake(c) ==
  /\ call[c].pc = "backoff"
  /\ now >= call[c].wake
  /\ call' = [call EXCEPT ![c] =
       [@ EXCEPT !.pc = "send", !.attempt = @ + 1,
                 !.backoff = NextBackoff(call[c].backoff,
                               RetryConfigForErrorClass(call[c].loopClass))]]
  /\ UNCHANGED <<now, rl, upstream, cache>>
  /\ DoFrame

(* Mutant: the wait is a plain sleep that ignores ctx.Done(); the loop
   goes on to the next attempt *)
DoBackoffCancel_Ignored(c) ==
  /\ call[c].pc = "backoff"
  /\ call[c].cancelled
  /\ call' = [call EXCEPT ![c] = [@ EXCEPT !.pc = "send", !.attempt = @ + 1]]
  /\ UNCHANGED <<now, rl, upstream, cache>>
  /\ DoFrame

(* select: ctx.Done() fires during the backoff wait *)
DoBackoffCancel(c) ==
  /\ call[c].pc = "backoff"
  /\ call[c].cancelled
  /\ call' = [call EXCEPT ![c] =
       Fail([@ EXCEPT !.retryErr = "cancelled", !.bodyOpen = FALSE],
            "cancelled")]
  /\ UNCHANGED <<now, rl, upstream, cache>>
  /\ DoFrame

(* The caller cancels the context of a running call *)
Cancel(c) ==
  /\ call[c].pc \notin {"off", "done"}
  /\ ~call[c].cancelled
  /\ call' = [call EXCEPT ![c] =
       [@ EXCEPT !.cancelled = TRUE, !.cancelledAt = now,
                 !.cancelledIn = call[c].pc]]
  /\ UNCHANGED <<now, rl, upstream, cache>>
  /\ DoFrame

Sleeping(c) == call[c].pc \in {"throttle", "backoff"}

(* Instants at which something changes: for a sleeping call its wake-up
   and the instants at which its caller may cancel it; for a caller that
   is between two calls the instants at which the cached entry runs out *)
DoInstants ==
  UNION { {call[c].wake} \cup {call[c].asleepAt + d : d \in CancelDelays} :
            c \in {x \in DOMAIN call : Sleeping(x)} }
  \cup (IF cache # Absent /\ \A c \in DOMAIN call : call[c].pc = "off"
          THEN {cache[1].ttlAt, Unmarshal(cache[1].data).Expires + 1}
          ELSE {})

(* The wall clock advances, no further than the next wake-up.  A select
   whose ctx.Done() case is ready returns at once: no time passes while a
   cancelled call is in its backoff wait *)
DoAdvance ==
  /\ \E t \in DoInstants :
       /\ t > now
       /\ \A d \in DOMAIN call : Sleeping(d) => t <= call[d].wake
       /\ now' = t
  /\ \A d \in DOMAIN call : ~(call[d].pc = "backoff" /\ call[d].cancelled)
  /\ UNCHANGED <<rl, call, upstream, cache>>
  /\ DoFrame

(* Redis drops the key once its TTL has run out *)
RedisExpire ==
  /\ cache # Absent
  /\ now >= cache[1].ttlAt
  /\ cache' = Absent
  /\ UNCHANGED <<now, rl, call, upstream>>
  /\ DoFrame

Next ==
  \/ \E c \in Calls : DoStart(c)
  \/ \E c \in Calls : DoGate(c)
  \/ \E c \in Calls : DoThrottleWake(c)
  \/ \E c \in Calls : DoCacheGet(c)
  \/ \E c \in Calls : DoSend(c)
  \/ \E c \in Calls : DoTransportError(c)
  \/ \E c \in Calls : DoResponse(c)
  \/ \E c \in Calls : DoBackoffWake(c)
  \/ \E c \in Calls : DoBackoffCancel(c)
  \/ \E c \in Calls : Cancel(c)
  \/ DoAdvance
  \/ RedisExpire

Spec == Init /\ [][Next]_vars

----------------------------------------------------------------------------
(* Consecutive Do calls of one caller on a fresh Redis (SpecSeq).  The
   caller does not cancel and the transport does not fail; the upstream
   answers 200, 304 or 500 and sends no budget headers, so the gate stays
   open *)

SeqStatuses == {200, 304, 500}

InitSeq ==
  /\ now = 0
  /\ rl = EmptyStore
  /\ redisUp \in BOOLEAN
  /\ tp = [p \in Procs |-> IdleProc]
  /\ mgr = NoMgr
  /\ ck = NoKeys
  /\ pg = NoPages
  /\ tuples = {}
  /\ lastLanded = EmptyStore
  /\ cfg = DefaultConfig
  /\ call = [c \in Calls |-> IdleCall]
  /\ upstream = NoUpstream
  /\ cache = Absent

(* Do has returned; the caller gets ready for its next call to the same
   path and keeps what the finished call gave it *)
DoAgain(c) ==
  /\ call[c].pc = "done"
  /\ call[c].seq < MaxCalls
  /\ call' = [call EXCEPT ![c] =
       [IdleCall EXCEPT !.seq = call[c].seq + 1,
          !.prev = <<[result |-> call[c].result, status |-> call[c].status,
                      body |-> call[c].body, charID |-> call[c].charID,
                      cacheKey |-> call[c].cacheKey]>>]]
  /\ UNCHANGED <<now, rl, upstream, cache>>
  /\ DoFrame

SeqStart(c) == DoStartWith(c, {FALSE}, {0})

SeqResponse(c) == DoResponseWith(c, SeqStatuses, {NoHeaders})

NextSeq ==
  \/ \E c \in Calls : SeqStart(c)
  \/ \E c \in Calls : DoGate(c)
  \/ \E c \in Calls : DoCacheGet(c)
  \/ \E c \in Calls : DoSend(c)
  \/ \E c \in Calls : SeqResponse(c)
  \/ \E c \in Calls : DoBackoffWake(c)
  \/ \E c \in Calls : DoAgain(c)
  \/ DoAdvance
  \/ RedisExpire

SpecSeq == InitSeq /\ [][NextSeq]_vars

----------------------------------------------------------------------------
(* Do calls of two goroutines on one client (SpecConc).  The client is
   built with MaxConcurrency = 1; Redis is fresh and reachable, nobody
   cancels, and the upstream answers 200 without budget headers *)

ConcCalls == {"call", "other"}

ConcConfig == [DefaultConfig EXCEPT !.MaxConcurrency = 1]

InitConc ==
  /\ now = 0
  /\ rl = EmptyStore
  /\ redisUp = TRUE
  /\ tp = [p \in Procs |-> IdleProc]
  /\ mgr = NoMgr
  /\ ck = NoKeys
  /\ pg = NoPages
  /\ tuples = {}
  /\ lastLanded = EmptyStore
  /\ cfg = ConcConfig
  /\ call = [c \in ConcCalls |-> IdleCall]
  /\ upstream = NoUpstream
  /\ cache = Absent

ConcResponse(c) == DoResponseWith(c, {200}, {NoHeaders})

NextConc ==
  \/ \E c \in ConcCalls : SeqStart(c)
  \/ \E c \in ConcCalls : DoGate(c)
  \/ \E c \in ConcCalls : DoCacheGet(c)
  \/ \E c \in ConcCalls : DoSend(c)
  \/ \E c \in ConcCalls : ConcResponse(c)
  \/ \E c \in ConcCalls : DoAgain(c)
  \/ DoAdvance
  \/ RedisExpire

SpecConc == InitConc /\ [][NextConc]_vars

----------------------------------------------------------------------------
(* One Do call on a Redis that may become unreachable during the call and
   whose cache key may hold a document that does not decode (SpecFault).
   Nobody cancels, the transport does not fail, the upstream answers 200,
   304 or 404 without budget headers *)

(* A record whose "data" member is plain text instead of base64 *)
CorruptRecord ==
  [data |-> [Marshal(ResponseToEntry(200,
                [body |-> "A", etag |-> <<97>>, lastmod |-> FALSE,
                 hasExp |-> TRUE, exp |-> 2000], 0))
               EXCEPT !.data = <<"text", "A">>],
   ttlAt |-> 2000]

FaultSeedCaches == DoSeedCaches \cup {<<CorruptRecord>>}

InitFault ==
  /\ now = 0
  /\ rl \in {EmptyStore,
              [errors_remaining |-> <<100>>, reset_timestamp |-> <<60>>,
               last_update |-> <<LU(0)>>]}
  /\ redisUp = TRUE
  /\ cfg = DefaultConfig
  /\ cache \in FaultSeedCaches
  /\ tp = [p \in Procs |-> IdleProc]
  /\ mgr = NoMgr
  /\ ck = NoKeys
  /\ pg = NoPages
  /\ tuples = {}
  /\ lastLanded = EmptyStore
  /\ call = [c \in Calls |-> IdleCall]
  /\ upstream = NoUpstream

FaultStart(c) == DoStartWith(c, {FALSE}, {0})

FaultResponse(c) == DoResponseWith(c, {200, 304, 404}, {NoHeaders})

(* Redis becomes unreachable, or reachable again *)
RedisOutage ==
  /\ redisUp' = ~redisUp
  /\ UNCHANGED <<now, rl, tp, tuples, lastLanded, cfg, call, upstream,
                 cache, mgr, ck, pg>>

NextFault ==
  \/ \E c \in Calls : FaultStart(c)
  \/ \E c \in Calls : DoGate(c)
  \/ \E c \in Calls : DoCacheGet(c)
  \/ \E c \in Calls : DoSend(c)
  \/ \E c \in Calls : FaultResponse(c)
  \/ RedisOutage
  \/ DoAdvance
  \/ RedisExpire

SpecFault == InitFault /\ [][NextFault]_vars

----------------------------------------------------------------------------
(* Consecutive Do calls for the same path and query made on behalf of
   different callers (SpecIdent).  Nobody cancels, the transport does not
   fail, the upstream answers 200 or 304 without budget headers *)

(* Caller identities a request can carry: none, or a character id *)
CallerIDs == {0, 7, 12}

IdentStart(c) == DoStartWith(c, {FALSE}, CallerIDs)

IdentResponse(c) == DoResponseWith(c, {200, 304}, {NoHeaders})

NextIdent ==
  \/ \E c \in Calls : IdentStart(c)
  \/ \E c \in Calls : DoGate(c)
  \/ \E c \in Calls : DoCacheGet(c)
  \/ \E c \in Calls : DoSend(c)
  \/ \E c \in Calls : IdentResponse(c)
  \/ \E c \in Calls : DoAgain(c)
  \/ DoAdvance
  \/ RedisExpire

SpecIdent == InitSeq /\ [][NextIdent]_vars

----------------------------------------------------------------------------
(* Manager calls of one caller on one key (SpecCache) *)

(* ETags of the entries written: none, "a", a two-byte UTF-8 letter, and
   the same letter as a single Latin-1 byte *)
MgrETags == { <<>>, <<97>>, <<195, 169>>, <<233>> }

(* Expires of the entries written and of UpdateTTL, relative to now *)
MgrExpiresIn == {-1000, 0, 1000}

MgrEntries(t) ==
  { [Data |-> b, ETag |-> g, Expires |-> t + x, LastModified |-> FALSE,
     StatusCode |-> 200,
     Headers |-> [etag |-> g, lastmod |-> FALSE, hasExp |-> TRUE,
                  exp |-> x]] :
      b \in {"A", "B"}, g \in MgrETags, x \in MgrExpiresIn }

(* Time passes between two Manager calls *)
MgrSteps == {1000}

InitCache ==
  /\ now = 0
  /\ rl = EmptyStore
  /\ redisUp \in BOOLEAN
  /\ tp = [p \in Procs |-> IdleProc]
  /\ mgr = NoMgr
  /\ ck = NoKeys
  /\ pg = NoPages
  /\ tuples = {}
  /\ lastLanded = EmptyStore
  /\ cfg = DefaultConfig
  /\ call = [c \in Calls |-> IdleCall]
  /\ upstream = NoUpstream
  /\ cache = Absent

MgrFrame ==
  UNCHANGED <<now, rl, redisUp, tp, tuples, lastLanded, cfg, call, upstream,
              ck, pg>>

MgrSet ==
  /\ \E e \in MgrEntries(now) :
       LET r == ManagerSet(cache, e, now, redisUp)
       IN /\ cache' = r.cache
          /\ mgr' = [op |-> "Set", arg |-> <<e>>, newExpires |-> 0,
                     pre |-> cache, ret |-> Absent, err |-> r.err,
                     at |-> now, after |-> <<>>]
  /\ MgrFrame

MgrGet ==
  /\ LET r == ManagerGet(cache, now, redisUp, redisUp)
     IN /\ cache' = r.cache
        /\ mgr' = [op |-> "Get", arg |-> Absent, newExpires |-> 0,
                   pre |-> cache, ret |-> r.entry, err |-> r.err,
                   at |-> now, after |-> <<[mgr EXCEPT !.after = <<>>]>>]
  /\ MgrFrame

MgrDelete ==
  /\ cache' = ManagerDelete(cache, redisUp)
  /\ mgr' = [op |-> "Delete", arg |-> Absent, newExpires |-> 0,
             pre |-> cache, ret |-> Absent,
             err |-> IF redisUp THEN "nil" ELSE "redis", at |-> now,
             after |-> <<>>]
  /\ MgrFrame

MgrUpdateTTL ==
  /\ \E x \in MgrExpiresIn :
       LET r == ManagerUpdateTTL(cache, now + x, now, redisUp)
       IN /\ cache' = r.cache
          /\ mgr' = [op |-> "UpdateTTL", arg |-> Absent,
                     newExpires |-> now + x, pre |-> cache, ret |-> Absent,
                     err |-> r.err, at |-> now, after |-> <<>>]
  /\ MgrFrame

MgrAdvance ==
  /\ \E d \in MgrSteps : now + d <= MaxTime /\ now' = now + d
  /\ UNCHANGED <<rl, call, upstream, cache>>
  /\ DoFrame

NextCache ==
  \/ MgrSet
  \/ MgrGet
  \/ MgrDelete
  \/ MgrUpdateTTL
  \/ MgrAdvance
  \/ RedisExpire

SpecCache == InitCache /\ [][NextCache]_vars

----------------------------------------------------------------------------
(* Two goroutines on one key (SpecRace): one runs Manager.UpdateTTL, which
   is a Get followed by a Set, the other runs Manager.Set with the entry of
   a new response; each Redis round is one step *)

IdleRace ==
  [upd |-> [pc |-> "start", got |-> Absent, newExpires |-> 0, err |-> "nil"],
   set |-> [pc |-> "start", arg |-> Absent, err |-> "nil", wrote |-> FALSE]]

(* The key is absent or holds an entry that has time left *)
RaceSeedCaches ==
  {Absent} \cup
  { <<[data |-> Marshal(e), ttlAt |-> e.Expires]>> :
      e \in {x \in MgrEntries(0) : x.Expires > 0} }

InitRace ==
  /\ now = 0
  /\ rl = EmptyStore
  /\ redisUp \in BOOLEAN
  /\ cfg = DefaultConfig
  /\ cache \in RaceSeedCaches
  /\ tp = [p \in Procs |-> IdleProc]
  /\ mgr = IdleRace
  /\ ck = NoKeys
  /\ pg = NoPages
  /\ tuples = {}
  /\ lastLanded = EmptyStore
  /\ call = [c \in Calls |-> IdleCall]
  /\ upstream = NoUpstream

(* UpdateTTL: entry, err := m.Get(ctx, key); return on an error *)
RaceUpdateGet ==
  /\ mgr.upd.pc = "start"
  /\ \E x \in MgrExpiresIn :
       LET g == ManagerGet(cache, now, redisUp, redisUp)
       IN /\ cache' = g.cache
          /\ mgr' = [mgr EXCEPT !.upd =
               [pc |-> IF g.err = "nil" THEN "read" ELSE "done",
                got |-> g.entry, newExpires |-> now + x, err |-> g.err]]
  /\ MgrFrame

(* UpdateTTL: entry.Expires = newExpires; return m.Set(ctx, key, entry) *)
RaceUpdateSet ==
  /\ mgr.upd.pc = "read"
  /\ LET r == ManagerSet(cache,
                         [mgr.upd.got[1] EXCEPT
                            !.Expires = mgr.upd.newExpires],
                         now, redisUp)
     IN /\ cache' = r.cache
        /\ mgr' = [mgr EXCEPT !.upd = [@ EXCEPT !.pc = "done",
                                                !.err = r.err]]
  /\ MgrFrame

(* The other goroutine stores the entry of a new 200 response *)
RaceSet ==
  /\ mgr.set.pc = "start"
  /\ \E e \in MgrEntries(now) :
       LET r == ManagerSet(cache, e, now, redisUp)
       IN /\ cache' = r.cache
          /\ mgr' = [mgr EXCEPT !.set =
               [pc |-> "done", arg |-> <<e>>, err |-> r.err,
                wrote |-> r.err = "nil" /\ TTL(e, now) > 0]]
  /\ MgrFrame

NextRace ==
  \/ RaceUpdateGet
  \/ RaceUpdateSet
  \/ RaceSet

SpecRace == InitRace /\ [][NextRace]_vars

----------------------------------------------------------------------------
(* CacheKey.String applied to two keys (SpecKey) *)

(* "/a", "a/" and "/a:b=1" *)
KeyEndpoints == { <<47, 97>>, <<97, 47>>, <<47, 97, 58, 98, 61, 49>> }

(* none, b=1, and a=2 with b=1 *)
KeyPathParams ==
  { EmptyMap, (<<98>> :> <<49>>), (<<97>> :> <<50>>) @@ (<<98>> :> <<49>>) }

(* none, b=1, and a=2 with b=1&b=2 *)
KeyQueryParams ==
  { EmptyMap, (<<98>> :> << <<49>> >>),
    (<<97>> :> << <<50>> >>) @@ (<<98>> :> << <<49>>, <<50>> >>) }

KeyCharacterIDs == {0, 7, 12}

CacheKeys ==
  [Endpoint : KeyEndpoints, PathParams : KeyPathParams,
   QueryParams : KeyQueryParams, CharacterID : KeyCharacterIDs]

InitKey ==
  /\ now = 0
  /\ rl = EmptyStore
  /\ redisUp = TRUE
  /\ tp = [p \in Procs |-> IdleProc]
  /\ mgr = NoMgr
  /\ ck \in [1..2 -> [key : CacheKeys, pathOrder : {<<>>},
                       queryOrder : {<<>>}, str : {Absent}]]
  /\ pg = NoPages
  /\ tuples = {}
  /\ lastLanded = EmptyStore
  /\ cfg = DefaultConfig
  /\ call = [c \in Calls |-> IdleCall]
  /\ upstream = NoUpstream
  /\ cache = Absent

(* key i is serialized; the two ranges yield the names in some order *)
KeyString(i) ==
  /\ ck[i].str = Absent
  /\ \E po \in RangeOrders(DOMAIN ck[i].key.PathParams),
        qo \in RangeOrders(DOMAIN ck[i].key.QueryParams) :
       ck' = [ck EXCEPT ![i] =
                [@ EXCEPT !.pathOrder = po, !.queryOrder = qo,
                          !.str = <<String(ck[i].key, po, qo)>>]]
  /\ UNCHANGED <<now, rl, redisUp, tp, tuples, lastLanded, cfg, call,
                 upstream, cache, mgr, pg>>

NextKey == \E i \in 1..2 : KeyString(i)

SpecKey == InitKey /\ [][NextKey]_vars

----------------------------------------------------------------------------
(* Claims on the tracker *)

(* A goroutine whose ShouldAllowRequest has read a state and decided *)
Decided(p) ==
  /\ tp[p].op = "ShouldAllowRequest"
  /\ tp[p].kind \in {"default", "stored"}
  /\ tp[p].ret # "none"

(* C1: for every rate-limit state read by ShouldAllowRequest, the request
   is blocked iff ErrorsRemaining < 5, allowed after the 1s throttle sleep
   iff 5 <= ErrorsRemaining < 20, and allowed immediately otherwise; 5 is
   throttled, 20 is not. *)
C1_AdmitThresholds ==
  \A p \in Procs : Decided(p) =>
    /\ (tp[p].ret = "block") <=> (tp[p].budget < 5)
    /\ (tp[p].ret \in {"throttle", "allow_throttled"})
         <=> (5 <= tp[p].budget /\ tp[p].budget < 20)
    /\ (tp[p].ret = "allow") <=> (tp[p].budget >= 20)
    /\ (tp[p].ret = "allow_throttled" => now >= tp[p].at + 1000)

C1_Witness ==
  \E p \in Procs : /\ Decided(p)
                   /\ tp[p].kind = "stored"
                   /\ tp[p].budget = 5
                   /\ tp[p].ret = "allow_throttled"

(* A goroutine whose GetState (alone or inside ShouldAllowRequest) has
   returned a state *)
ReadDone(p) ==
  /\ tp[p].op \in {"GetState", "ShouldAllowRequest"}
  /\ tp[p].kind \in {"default", "stored"}

(* The state GetState builds from one group of keys *)
StateOfGroup(g) ==
  [budget |-> IntOrZero(g.errors_remaining),
   resetAt |-> FromUnix(IntOrZero(g.reset_timestamp)),
   lu |-> g.last_update]

(* C4: the three fields are written as a group, so a GetState that runs
   concurrently with an UpdateFromHeaders returns the state of one group
   (the one stored before, or the one of an absorption), never a state
   that mixes fields of two groups. *)
C4_NoTornRead ==
  \A p \in Procs :
    (ReadDone(p) /\ tp[p].kind = "stored" /\ tp[p].concurrent) =>
      \E g \in tuples :
        [budget |-> tp[p].budget, resetAt |-> tp[p].resetAt,
         lu |-> tp[p].lu] = StateOfGroup(g)

(* C5: once both of two concurrent absorptions have completed, the store
   holds exactly the tuple of the absorption whose Exec completed last. *)
C5_LastWriteWins ==
  (\A p \in Procs : tp[p].pc \notin {"set1", "set2", "set3"}) =>
    rl = lastLanded

(* C6: GetState returns the default healthy state only if none of the
   three keys is present; with any key present the state is built from the
   stored keys, absent ones read as zero. *)
C6_DefaultOnlyWhenEmpty ==
  \A p \in Procs : ReadDone(p) =>
    /\ (tp[p].kind = "default") <=> (tp[p].read = EmptyStore)
    /\ (tp[p].kind = "stored" =>
          /\ tp[p].budget = IntOrZero(tp[p].read.errors_remaining)
          /\ tp[p].resetAt = FromUnix(IntOrZero(tp[p].read.reset_timestamp)))

(* C7: blocking lasts until the reset: a ShouldAllowRequest that runs after
   the stored reset instant has passed is not blocked. *)
C7_AdmittedAfterReset ==
  \A p \in Procs :
    (Decided(p) /\ tp[p].kind = "stored" /\ tp[p].at > tp[p].resetAt) =>
      tp[p].ret # "block"
----------------------------------------------------------------------------
(* Claims on Client.Do *)

Is4xx(st) == st >= 400 /\ st < 500

(* The outcome of an attempt that failed with a retryable class:
   transport failure (0), 5xx or 520 *)
FailedRetryable(st) == st = 0 \/ st >= 500

(* C2: with the store seeded with errors_remaining = 3 and
   reset_timestamp = now + 60s, a Do call on a reachable store and a live
   context makes no upstream round trip, returns "request blocked: rate
   limit critical" and leaves the store as it was. *)
C2_SeededCriticalBlocks ==
  \A c \in Calls :
    ( /\ call[c].pc # "off"
      /\ redisUp
      /\ ~call[c].cancelled
      /\ call[c].rlAtStart.errors_remaining = <<3>>
      /\ call[c].rlAtStart.reset_timestamp
           = <<Unix(call[c].startAt + 60000)>> )
    => /\ call[c].roundTrips = 0
       /\ call[c].pc = "done" =>
            (call[c].result = "rate_limit_critical"
             /\ rl = call[c].rlAtStart)

(* A response arrives at call c in this step *)
Received(c) == call'[c].responses = call[c].responses + 1

(* C3: every upstream response of every attempt, whatever its status, is
   passed to UpdateFromHeaders in the step that receives it, before the
   classification: the absorptions of a call equal its responses, and a
   response carrying both budget headers leaves them in the store even
   when the attempt fails. *)
C3_AbsorbEveryResponse ==
  [][\A c \in Calls : Received(c) =>
       /\ call'[c].absorbed = call'[c].responses
       /\ call'[c].classified <= call'[c].absorbed
       /\ (redisUp /\ call'[c].lastHdr.remain.k = "int"
                   /\ call'[c].lastHdr.reset.k = "int") =>
            /\ rl'.errors_remaining = <<call'[c].lastHdr.remain.v>>
            /\ rl'.reset_timestamp
                 = <<Unix(now + 1000 * call'[c].lastHdr.reset.v)>>
            /\ rl'.last_update = <<LU(now)>>]_vars

C3_Witness ==
  \E c \in Calls :
    /\ call[c].pc = "done"
    /\ call[c].result = "retry_exhausted"
    /\ call[c].responses = 3
    /\ call[c].absorbed = 3
    /\ call[c].rlAtStart.errors_remaining = <<100>>
    /\ rl.errors_remaining = <<3>>

(* C8: Config.ErrorThreshold governs blocking: a call that reads a stored
   budget below the configured threshold is blocked. *)
C8_ErrorThresholdGoverns ==
  \A c \in Calls :
    (call[c].gateKind = "stored"
       /\ call[c].gateBudget < cfg.ErrorThreshold)
    => (call[c].gate = "block" /\ call[c].roundTrips = 0)

(* C9 as stated: a call whose upstream response is a 4xx has made exactly
   one upstream attempt and returns that response. *)
C9_Exactly1Attempt ==
  \A c \in Calls :
    (call[c].pc = "done" /\ Is4xx(call[c].last)) =>
      /\ call[c].roundTrips = 1
      /\ call[c].result = "response"
      /\ call[c].status = call[c].last

(* C9 amended: a 4xx response is never retried: the attempt that receives
   it is the last of the call and the caller receives that response with
   its status; the call has made one round trip plus one per retryable
   failure before the 4xx, so exactly 1 when the 4xx answers the first
   attempt. *)
C9_No4xxRetry ==
  \A c \in Calls :
    Is4xx(call[c].last) =>
      /\ call[c].pc = "done"
      /\ call[c].result = "response"
      /\ call[c].status = call[c].last
      /\ call[c].roundTrips = call[c].retries + 1
      /\ call[c].roundTrips = call[c].attempt
      /\ (call[c].attempt = 1 => call[c].roundTrips = 1)

C9_Witness ==
  \E c \in Calls :
    /\ call[c].pc = "done"
    /\ call[c].last = 404
    /\ call[c].roundTrips = 1
    /\ call[c].result = "response"
    /\ call[c].status = 404

(* C10 as stated: a call whose attempts all failed with a retryable class
   has made exactly 3 upstream attempts and returns retry-exhausted. *)
C10_Exactly3Attempts ==
  \A c \in Calls :
    (call[c].pc = "done" /\ FailedRetryable(call[c].last)) =>
      /\ call[c].roundTrips = 3
      /\ call[c].result = "retry_exhausted"

(* C10 amended: when every attempt fails with a retryable class and the
   caller's context is not cancelled, exactly 3 upstream attempts are made
   and the call returns retry-exhausted. *)
C10_ExhaustedAfter3 ==
  \A c \in Calls :
    (call[c].pc = "done" /\ FailedRetryable(call[c].last)
       /\ ~call[c].cancelled) =>
      /\ call[c].roundTrips = 3
      /\ call[c].attempt = 3
      /\ call[c].retries = 2
      /\ call[c].result = "retry_exhausted"

C10_Witness ==
  \E c \in Calls :
    /\ call[c].pc = "done"
    /\ ~call[c].cancelled
    /\ call[c].last = 520
    /\ call[c].roundTrips = 3
    /\ call[c].result = "retry_exhausted"

(* C11: a 304 response is never classified as an error and never consumes
   a retry attempt: in the step that receives it the classification count,
   the class and the retry count stay as they were, and the retry loop ends
   with success at that attempt, with no backoff wait and no further
   attempt. *)
C11_NotModifiedEndsLoop ==
  [][\A c \in Calls : (Received(c) /\ call'[c].last = 304) =>
       /\ call'[c].classified = call[c].classified
       /\ call'[c].errClass = call[c].errClass
       /\ call'[c].retries = call[c].retries
       /\ call'[c].attempt = call[c].attempt
       /\ call'[c].roundTrips = call[c].roundTrips
       /\ call'[c].pc = "done"
       /\ call'[c].retryErr = "nil"]_vars

C11_Witness ==
  \E c \in Calls :
    /\ call[c].pc = "done"
    /\ call[c].last = 304
    /\ call[c].attempt = 2
    /\ call[c].roundTrips = 2
    /\ call[c].retryErr = "nil"

(* Every response the call has received so far is a 500 *)
Only500(c) ==
  /\ call[c].hist # <<>>
  /\ \A i \in 1..Len(call[c].hist) : call[c].hist[i] = 500

(* C12: if the cancellation fires while the retry loop is in a backoff
   wait, the loop stops waiting (no time passes), makes no further attempt
   and returns the cancelled terminal error; with an upstream that always
   answers 500 and a cancellation 500ms after the first response, exactly
   one round trip is made. *)
C12_CancelEndsBackoff ==
  /\ [][\A c \in Calls :
         (call[c].pc = "backoff" /\ call[c].cancelled
            /\ now < call[c].wake) =>
           /\ now' = now
           /\ call'[c].roundTrips = call[c].roundTrips
           /\ call'[c].fnCalls = call[c].fnCalls
           /\ call'[c].pc \in {"backoff", "done"}
           /\ (call'[c].pc = "done" => call'[c].result = "cancelled")]_vars
  /\ [](\A c \in Calls :
         (Only500(c) /\ call[c].cancelledAt = call[c].respAt + 500) =>
           /\ call[c].roundTrips = 1
           /\ call[c].pc \in {"backoff", "done"}
           /\ (call[c].pc = "done" => call[c].result = "cancelled"))

C12_Witness ==
  \E c \in Calls :
    /\ call[c].pc = "done"
    /\ call[c].result = "cancelled"
    /\ Only500(c)
    /\ call[c].cancelledIn = "backoff"
    /\ call[c].cancelledAt = call[c].respAt + 500
    /\ call[c].roundTrips = 1

(* The context of call c was cancelled before Do was called *)
StartedCancelled(c) == call[c].cancelledIn = "off"

(* C13 as stated: every completed call that started with a cancelled
   context has made at least one upstream attempt. *)
C13_FirstAttemptAlways ==
  \A c \in Calls :
    (call[c].pc = "done" /\ StartedCancelled(c)) => call[c].fnCalls >= 1

(* C13 amended: a call that started with a cancelled context and that the
   gate admitted runs its first attempt before the retry loop looks at the
   cancellation: once past the gate it has called the transport once, the
   transport failed without a round trip, and the call ends as cancelled in
   the first backoff wait.  A call the gate blocks, or whose gate read
   fails, makes no attempt. *)
C13_FirstAttemptWhenAdmitted ==
  \A c \in Calls :
    (call[c].pc = "done" /\ StartedCancelled(c)) =>
      IF call[c].gate \in {"allow", "throttle"}
        THEN /\ call[c].fnCalls = 1
             /\ call[c].roundTrips = 0
             /\ call[c].hist = <<0>>
             /\ call[c].result = "cancelled"
        ELSE /\ call[c].fnCalls = 0
             /\ call[c].result \in {"rate_limit_check", "rate_limit_critical"}

C13_Witness ==
  \E c \in Calls :
    /\ call[c].pc = "done"
    /\ StartedCancelled(c)
    /\ call[c].gate = "allow"
    /\ call[c].fnCalls = 1
    /\ call[c].result = "cancelled"

(* C14: the throttle sleep of the gate honours cancellation: once the
   context of a throttled call is cancelled before the second has elapsed,
   the wait ends at once (no time passes) and the call returns cancelled
   without going on to the upstream. *)
C14_ThrottleHonoursCancel ==
  [][\A c \in Calls :
       (call[c].pc = "throttle" /\ call[c].cancelled
          /\ now < call[c].wake) =>
         /\ now' = now
         /\ call'[c].pc \in {"throttle", "done"}
         /\ (call'[c].pc = "done" => call'[c].result = "cancelled")]_vars

(* The retry loop of call c has just decided on a failed attempt: it waits
   for the next one or has given up *)
LoopDecided(c) ==
  \/ call[c].pc = "backoff"
  \/ call[c].pc = "done" /\ call[c].result \in {"retry_exhausted", "error"}

(* C15: the retry loop classifies every error separately: the class whose
   profile decides after a failed attempt (retry or not, max-attempts,
   backoff bounds) is the class of the most recent failure. *)
C15_ClassPerError ==
  \A c \in Calls :
    LoopDecided(c) =>
      /\ call[c].loopClass = call[c].errClass
      /\ RetryConfigForErrorClass(call[c].loopClass)
           = RetryConfigForErrorClass(classifyError(call[c].last,
                                                    call[c].last = 0))

RECURSIVE SumWaits(_)
(* Total time a call has spent, or committed to spend, in backoff waits *)
SumWaits(ws) ==
  IF ws = <<>> THEN 0 ELSE Head(ws).wait + SumWaits(Tail(ws))

(* C16: the configured initial-backoff is the one the retry loop uses:
   with InitialBackoff = 100ms and an upstream answering 500, 500, 200 the
   call makes 3 round trips, waits between 160ms and 360ms in total between
   the attempts, and returns status 200. *)
C16_ConfiguredBackoffUsed ==
  \A c \in Calls :
    ( /\ call[c].pc = "done"
      /\ cfg.InitialBackoff = 100
      /\ call[c].hist = <<500, 500, 200>> ) =>
      /\ call[c].roundTrips = 3
      /\ call[c].result = "response"
      /\ call[c].status = 200
      /\ Head(call[c].waits).backoff = cfg.InitialBackoff
      /\ SumWaits(call[c].waits) >= 160
      /\ SumWaits(call[c].waits) <= 360

Min(a, b) == IF a < b THEN a ELSE b

(* C17: in a retry sequence under class server the n-th wait is backoff_n
   times a jitter factor in [0.8, 1.2], with backoff_1 = 1s and
   backoff_(n+1) = min(10s, 2 x backoff_n): the first wait lies in
   [0.8s, 1.2s], the second in [1.6s, 2.4s], and the un-jittered backoff
   (1s, 2s, 4s, 8s, 10s, 10s, ...) never exceeds the 10s cap. *)
C17_ServerBackoffSequence ==
  /\ \A n \in 1..6 :
       BackoffAt(n, RetryConfigForErrorClass(ErrorClassServer))
         = Min(10000, 1000 * 2^(n - 1))
  /\ \A c \in Calls :
       call[c].loopClass = ErrorClassServer =>
         /\ call[c].backoff <= 10000
         /\ \A n \in 1..Len(call[c].waits) :
              /\ call[c].waits[n].backoff = Min(10000, 1000 * 2^(n - 1))
              /\ 100 * call[c].waits[n].wait
                   >= 80 * call[c].waits[n].backoff
              /\ 100 * call[c].waits[n].wait
                   <= 120 * call[c].waits[n].backoff

C17_Witness ==
  \E c \in Calls :
    /\ call[c].loopClass = ErrorClassServer
    /\ Len(call[c].waits) = 2
    /\ call[c].waits[1].wait = 800
    /\ call[c].waits[2].wait = 2380
    /\ call[c].attempt = 3

----------------------------------------------------------------------------
(* C20: get(key) never returns a stale entry: if the stored record's
   expiration instant is before now, get deletes the record and returns
   cache-miss, so a call made after the expiration performs a full,
   non-conditional round trip. *)

(* The step is the cache lookup of call c on a record whose Expires is
   before now, with the GET answered by Redis *)
StaleLookup(c) ==
  /\ call[c].pc = "cache"
  /\ call'[c].pc = "send"
  /\ cache # Absent
  /\ Unmarshal(cache[1].data).Expires < now
  /\ call'[c].lookup # "redis"

(* The claim as stated: the stale record is always deleted *)
C20_StaleDeleted ==
  [][\A c \in Calls : StaleLookup(c) =>
        /\ call'[c].lookup = "miss"
        /\ call'[c].entry = Absent
        /\ ~call'[c].conditional
        /\ cache' = Absent]_vars

(* Amended: the entry handed to Do is never stale; a stale record gives
   cache-miss and a non-conditional request, and it is gone from Redis
   unless the context of the call is cancelled (the DEL then may fail and
   Get ignores that) *)
C20_NeverStale ==
  /\ [][\A c \in Calls : StaleLookup(c) =>
          /\ call'[c].lookup = "miss"
          /\ call'[c].entry = Absent
          /\ ~call'[c].conditional
          /\ (cache' = Absent \/ (call[c].cancelled /\ cache' = cache))]_vars
  /\ [][\A c \in Calls :
          (call[c].pc = "cache" /\ call'[c].pc = "send"
             /\ call'[c].entry # Absent) =>
               /\ cache # Absent
               /\ call'[c].entry[1] = Unmarshal(cache[1].data)
               /\ call'[c].entry[1].Expires >= now]_vars
  /\ [](\A c \in Calls :
          /\ call[c].entry # Absent => call[c].lookup = "nil"
          /\ call[c].conditional => call[c].entry # Absent)

C20_Witness ==
  \E c \in Calls :
    /\ call[c].pc = "inflight"
    /\ call[c].lookup = "miss"
    /\ ~call[c].conditional
    /\ ~call[c].cancelled
    /\ cache = Absent
    /\ now > 2000
    /\ rl = EmptyStore

----------------------------------------------------------------------------
(* C19: two consecutive calls to the same GET path within the entry's
   freshness window return byte-identical bodies to the caller; when the
   second call is a conditional round trip answered with 304, the caller
   still receives a status-200 response whose body is the cached body of the
   first call. *)

(* Call c is the second of two calls, the first returned a 200 response,
   and the second found its entry unexpired in the cache *)
SecondInWindow(c) ==
  /\ call[c].seq = 2
  /\ call[c].pc = "done"
  /\ call[c].prev[1].result = "response"
  /\ call[c].prev[1].status = 200
  /\ call[c].lookup = "nil"

(* The claim as stated: the bodies are always identical *)
C19_SameBodyAlways ==
  \A c \in Calls : SecondInWindow(c) =>
    /\ call[c].result = "response"
    /\ call[c].body = call[c].prev[1].body
    /\ (call[c].conditional /\ call[c].last = 304) => call[c].status = 200

(* Amended: identical bodies when the second call is answered with 304 *)
C19_SameBodyOn304 ==
  \A c \in Calls :
    (SecondInWindow(c) /\ call[c].retryErr = "nil" /\ call[c].last = 304) =>
      /\ call[c].result = "response"
      /\ call[c].status = 200
      /\ call[c].body = call[c].prev[1].body
      /\ call[c].body = call[c].entry[1].Data

C19_Witness ==
  \E c \in Calls :
    /\ SecondInWindow(c)
    /\ call[c].conditional
    /\ call[c].last = 304
    /\ call[c].roundTrips = 1
    /\ call[c].result = "response"
    /\ call[c].status = 200
    /\ call[c].body = "B"
    /\ call[c].prev[1].body = "B"

----------------------------------------------------------------------------
(* C18: the client enforces MaxConcurrency: at no time does one client
   instance have more than MaxConcurrency upstream requests in flight,
   however many goroutines call Get/Do concurrently. *)
C18_MaxConcurrencyEnforced ==
  /\ upstream.inflight <= cfg.MaxConcurrency
  /\ Cardinality({c \in DOMAIN call : call[c].pc = "inflight"})
        <= cfg.MaxConcurrency

----------------------------------------------------------------------------
(* C21: for every entry whose expiration instant is before now at set
   time, set is a no-op that returns success, and a subsequent get for that
   key returns cache-miss. *)

(* The last call is a Set of an entry that had expired when it was set *)
ExpiredSet(m) ==
  /\ m.op = "Set"
  /\ m.arg[1].Expires < m.at

(* The last call is a Get that Redis answered and that came right after a
   Set of an expired entry *)
GetAfterExpiredSet ==
  /\ mgr.op = "Get"
  /\ mgr.err # "redis"
  /\ ExpiredSet(mgr.after[1])

(* The claim as stated: the get always misses *)
C21_ExpiredSetThenMiss ==
  /\ ExpiredSet(mgr) => mgr.err = "nil"
  /\ GetAfterExpiredSet => mgr.err = "miss"

(* Amended: the set writes nothing and succeeds, so the get answers from
   what the key held before the set: a miss for an empty key or an entry
   that has run out, the earlier entry otherwise *)
C21_ExpiredSetWritesNothing ==
  /\ [][(mgr' # mgr /\ ExpiredSet(mgr')) =>
          (mgr'.err = "nil" /\ cache' = cache)]_vars
  /\ [](GetAfterExpiredSet =>
          /\ mgr.pre \in {mgr.after[1].pre, Absent}
          /\ mgr.after[1].pre = Absent => mgr.err = "miss"
          /\ mgr.err = "nil" =>
                /\ mgr.pre # Absent
                /\ mgr.ret[1] = Unmarshal(mgr.pre[1].data)
                /\ mgr.ret[1].Data # mgr.after[1].arg[1].Data
                      \/ mgr.ret[1].Expires # mgr.after[1].arg[1].Expires)

C21_Witness ==
  /\ GetAfterExpiredSet
  /\ mgr.after[1].pre = Absent
  /\ mgr.after[1].err = "nil"
  /\ mgr.err = "miss"
  /\ cache = Absent

----------------------------------------------------------------------------
(* C22: when a 200 response carries an Expires header that is already in
   the past, no cache entry is written for that response. *)

(* The step hands a 200 response to the caller of call c *)
Returns200(c) ==
  /\ call[c].pc = "inflight"
  /\ call'[c].pc = "done"
  /\ call'[c].retryErr = "nil"
  /\ call'[c].last = 200

C22_PastExpiresNotCached ==
  [][\A c \in Calls :
       (/\ Returns200(c)
        /\ call'[c].lastContent.hasExp
        /\ HeaderExpires(call'[c].lastContent, now) < now) =>
          /\ cache' = cache
          /\ call'[c].result = "response"
          /\ call'[c].status = 200
          /\ call'[c].body = call'[c].lastContent.body]_vars

C22_Witness ==
  \E c \in Calls :
    /\ call[c].pc = "done"
    /\ call[c].retryErr = "nil"
    /\ call[c].last = 200
    /\ call[c].lastContent.hasExp
    /\ call[c].lastContent.exp < 0
    /\ call[c].lookup = "miss"
    /\ redisUp
    /\ cache = Absent

----------------------------------------------------------------------------
(* C23: only a 200 response creates or replaces a cache entry: every other
   2xx/3xx response (and every 4xx/5xx response) is returned without
   writing the cache, and a 304 changes nothing but the expiration of the
   existing entry. *)

(* The step is call c receiving a response of status st *)
ReceivedStatus(c, st) ==
  /\ call[c].pc = "inflight"
  /\ call'[c].responses = call[c].responses + 1
  /\ call'[c].last = st

(* The key holds the same entry before and after, but for its expiration *)
OnlyExpiresChanged ==
  /\ cache # Absent
  /\ cache' # Absent
  /\ [cache'[1].data EXCEPT !.expires = cache[1].data.expires]
        = cache[1].data

(* The claim as stated *)
C23_Only200Writes ==
  [][\A c \in Calls :
       /\ \A st \in Statuses \ {200, 304} :
            ReceivedStatus(c, st) => cache' = cache
       /\ ReceivedStatus(c, 304) => (cache' = cache \/ OnlyExpiresChanged)]_vars

(* Amended: the refresh on a 304 reads the entry first, and that read
   deletes a record that has run out in the meantime *)
C23_Only200WritesEntries ==
  [][\A c \in Calls :
       /\ \A st \in Statuses \ {200, 304} :
            ReceivedStatus(c, st) => cache' = cache
       /\ ReceivedStatus(c, 304) =>
            \/ cache' = cache
            \/ OnlyExpiresChanged
            \/ /\ cache # Absent
               /\ IsExpired(Unmarshal(cache[1].data), now)
               /\ call'[c].lastContent.hasExp
               /\ cache' = Absent
       /\ (/\ \E st \in Statuses : ReceivedStatus(c, st)
           /\ cache' # Absent
           /\ cache' # cache
           /\ ~OnlyExpiresChanged) => call'[c].last = 200]_vars

C23_Witness ==
  \E c \in Calls :
    /\ call[c].pc = "done"
    /\ call[c].last = 304
    /\ call[c].lastContent.hasExp
    /\ call[c].entry # Absent
    /\ cache # Absent
    /\ cache[1].data.expires # call[c].entry[1].Expires
    /\ cache[1].data.data[2] = call[c].entry[1].Data
    /\ cache[1].data.etag = call[c].entry[1].ETag

----------------------------------------------------------------------------
(* C24: refresh-ttl(key, new-expiration) on an existing entry changes only
   its expiration instant (body, validators, status and headers are
   preserved), and on a key whose entry has disappeared it returns
   cache-miss without writing anything. *)

(* The step is an UpdateTTL that Redis answers *)
UpdateTTLStep ==
  /\ mgr' # mgr
  /\ mgr'.op = "UpdateTTL"
  /\ redisUp

(* The record of the key differs at most in its expiration and TTL *)
SameButExpires(a, b) ==
  [b[1].data EXCEPT !.expires = a[1].data.expires] = a[1].data

(* The claim as stated, for every record the key holds *)
C24_UpdateTTLOnlyExpires ==
  [][UpdateTTLStep =>
       /\ cache # Absent =>
            (cache' # Absent /\ SameButExpires(cache, cache')
               /\ mgr'.err = "nil")
       /\ cache = Absent => (mgr'.err = "miss" /\ cache' = Absent)]_vars

(* Amended: a record that has run out is deleted by the read of
   refresh-ttl, which then returns cache-miss *)
C24_UpdateTTLOnlyExpiresIfFresh ==
  [][UpdateTTLStep =>
       /\ (cache # Absent /\ ~IsExpired(Unmarshal(cache[1].data), now)) =>
            /\ cache' # Absent
            /\ SameButExpires(cache, cache')
            /\ mgr'.err = "nil"
            /\ cache' # cache =>
                  /\ cache'[1].data.expires = mgr'.newExpires
                  /\ cache'[1].ttlAt = mgr'.newExpires
            /\ cache' = cache =>
                  \/ mgr'.newExpires <= now
                  \/ mgr'.newExpires = cache[1].data.expires
       /\ (cache # Absent /\ IsExpired(Unmarshal(cache[1].data), now)) =>
            (mgr'.err = "miss" /\ cache' = Absent)
       /\ cache = Absent => (mgr'.err = "miss" /\ cache' = Absent)]_vars

C24_Witness ==
  /\ mgr.op = "UpdateTTL"
  /\ mgr.err = "nil"
  /\ mgr.pre # Absent
  /\ cache # Absent
  /\ cache # mgr.pre
  /\ cache[1].data.expires = mgr.newExpires
  /\ cache[1].data.etag = <<195, 169>>
  /\ cache[1].data.data = mgr.pre[1].data.data

----------------------------------------------------------------------------
(* C25: for every entry written via set with ttl > 0 and read via get
   before its expiration, the retrieved entry equals the written one: body
   byte-for-byte, and validators, status and headers structurally. *)

(* The last call is a Get that came right after a successful Set of an
   entry with time left, and before that entry's expiration *)
GetAfterSet ==
  /\ mgr.op = "Get"
  /\ mgr.err # "redis"
  /\ mgr.after[1].op = "Set"
  /\ mgr.after[1].err = "nil"
  /\ TTL(mgr.after[1].arg[1], mgr.after[1].at) > 0
  /\ mgr.at < mgr.after[1].arg[1].Expires

C25_SetGetRoundTrip ==
  GetAfterSet =>
    /\ mgr.err = "nil"
    /\ mgr.ret # Absent
    /\ mgr.ret[1].Data = mgr.after[1].arg[1].Data
    /\ mgr.ret[1].ETag = mgr.after[1].arg[1].ETag
    /\ mgr.ret[1].LastModified = mgr.after[1].arg[1].LastModified
    /\ mgr.ret[1].StatusCode = mgr.after[1].arg[1].StatusCode
    /\ mgr.ret[1].Headers = mgr.after[1].arg[1].Headers

----------------------------------------------------------------------------
(* C26: two cache keys are equal if and only if their serializations are
   byte-identical: keys that differ in path, in a path-parameter, in a
   query-parameter or in caller identity never serialize to the same
   string. *)

(* A key as the serialization means to read it: the path without its
   outer slashes, the first value of each query-parameter *)
LogicalKey(k) ==
  [Endpoint |-> Trim(k.Endpoint, SlashByte),
   PathParams |-> k.PathParams,
   QueryParams |-> [n \in DOMAIN k.QueryParams |->
                      ValuesGet(k.QueryParams, n)],
   CharacterID |-> k.CharacterID]

BothSerialized == ck # NoKeys /\ ck[1].str # Absent /\ ck[2].str # Absent

C26_KeysEqualIffStringsEqual ==
  BothSerialized =>
    ((LogicalKey(ck[1].key) = LogicalKey(ck[2].key))
       <=> (ck[1].str = ck[2].str))

----------------------------------------------------------------------------
(* C28: for every cache key k, serialize(k) always yields the same string,
   and the string does not depend on the insertion order of k's
   path-parameter and query-parameter maps. *)
C28_StringDeterministic ==
  (BothSerialized /\ ck[1].key = ck[2].key) => ck[1].str = ck[2].str

C28_Witness ==
  /\ BothSerialized
  /\ ck[1].key = ck[2].key
  /\ ck[1].pathOrder # ck[2].pathOrder
  /\ ck[1].queryOrder # ck[2].queryOrder
  /\ ck[1].key.CharacterID = 12
  /\ ck[1].str = ck[2].str

----------------------------------------------------------------------------
(* C27: the cache key that do() computes contains the caller identity
   taken from the request-scoped value when one is present (0 otherwise),
   so two calls to the same path and query that differ only in a positive
   caller identity never read or write the same cache entry. *)
C27_KeyHasCallerIdentity ==
  \A c \in Calls :
    /\ call[c].cacheKey # Absent =>
          call[c].cacheKey[1] =
            String([DoCacheKey(call[c].charID)
                      EXCEPT !.CharacterID = call[c].charID],
                   <<>>, <<<<98>>>>)
    /\ (/\ call[c].cacheKey # Absent
        /\ call[c].prev # <<>>
        /\ call[c].prev[1].cacheKey # Absent
        /\ call[c].charID > 0
        /\ call[c].prev[1].charID > 0
        /\ call[c].charID # call[c].prev[1].charID) =>
          /\ call[c].cacheKey # call[c].prev[1].cacheKey
          /\ call[c].lookup # "nil"

----------------------------------------------------------------------------
(* C29: do() consults the gate before the cache: a call that the gate
   blocks performs no cache read, write or delete.  Every step of a call
   that the gate has blocked leaves the cache as it is, and the call ends
   without a lookup: no entry, no lookup result, no key computed. *)
C29_BlockedCallLeavesCache ==
  [][\A c \in Calls :
       (call'[c].gate = "block" /\ call'[c] # call[c]) =>
         /\ cache' = cache
         /\ call'[c].pc = "done"
         /\ call'[c].result = "rate_limit_critical"
         /\ call'[c].lookup = "none"
         /\ call'[c].entry = Absent
         /\ call'[c].cacheKey = Absent]_vars

(* A blocked call has ended while the store holds a record past its
   expiration, which a lookup would have deleted *)
C29_Witness ==
  \E c \in Calls :
    /\ call[c].pc = "done"
    /\ call[c].gate = "block"
    /\ call[c].result = "rate_limit_critical"
    /\ cache # Absent
    /\ now >= cache[1].ttlAt
    /\ redisUp

----------------------------------------------------------------------------
(* C30: for every response observed by the pipeline that carries both the
   budget-remaining and the reset header, the next get-state at the same
   replica returns a state whose budget-remaining equals the header value
   and whose reset-instant lies within 2 seconds of now + reset-header.
   The response is the last one whose absorption returned, no absorption
   runs during the read, and the read returns a state. *)
ReadBack(p) ==
  /\ tp[p].pc = "idle"
  /\ tp[p].op = "GetState"
  /\ tp[p].ret = "state"
  /\ tp[p].hdr.remain.k = "int"
  /\ tp[p].hdr.reset.k = "int"
  /\ lastLanded = tp[p].tuple
  /\ ~tp[p].concurrent
  /\ \A q \in Procs : tp[q].pc \notin {"set1", "set2", "set3"}

AbsorbedAt(p) == tp[p].tuple.last_update[1].t

C30_GetStateReturnsHeaders ==
  \A p \in Procs :
    ReadBack(p) =>
      /\ tp[p].budget = tp[p].hdr.remain.v
      /\ tp[p].resetAt - (AbsorbedAt(p) + tp[p].hdr.reset.v * 1000) <= 2000
      /\ (AbsorbedAt(p) + tp[p].hdr.reset.v * 1000) - tp[p].resetAt <= 2000

----------------------------------------------------------------------------
(* C31: if reading the rate-limit state fails with a store error (as
   opposed to the state being absent), do() returns an error without
   contacting the upstream; the gate falls back to the healthy default only
   when the state is truly absent, that is when the store held none of the
   tracker keys. *)
C31_GateErrorAbortsDefaultOnlyAbsent ==
  \A c \in Calls :
    /\ call[c].gate = "error" =>
          /\ call[c].pc = "done"
          /\ call[c].result = "rate_limit_check"
          /\ call[c].roundTrips = 0
          /\ ~call[c].sent
    /\ call[c].gateKind = "default" => call[c].rlAtStart = EmptyStore

----------------------------------------------------------------------------
(* C32: a cache failure never fails the call: a get that returns a miss, a
   decode error or a store error makes do() proceed as on a miss (no entry,
   no conditional headers, on to the first attempt), and a failing set
   after a 200 still returns the response to the caller. *)
C32_CacheFailureNotFatal ==
  [][\A c \in Calls :
       /\ (call[c].pc = "cache" /\ call'[c].pc # "cache"
             /\ call'[c].lookup \in {"miss", "invalid", "redis"}) =>
            /\ call'[c].pc = "send"
            /\ call'[c].attempt = 1
            /\ call'[c].entry = Absent
            /\ ~call'[c].conditional
            /\ call'[c].result = "none"
       /\ (call[c].pc = "inflight" /\ call'[c].last = 200
             /\ call'[c].responses = call[c].responses + 1) =>
            /\ call'[c].pc = "done"
            /\ call'[c].result = "response"
            /\ call'[c].status = 200
            /\ call'[c].body = call'[c].lastContent.body]_vars

(* The lookup met a document that does not decode, the upstream answered
   200 with an entry that has time left, Redis was unreachable for the set,
   and the caller has the response *)
C32_Witness ==
  \E c \in Calls :
    /\ call[c].pc = "done"
    /\ call[c].lookup = "invalid"
    /\ call[c].last = 200
    /\ call[c].lastContent.hasExp
    /\ call[c].lastContent.exp > 0
    /\ ~redisUp
    /\ cache = <<CorruptRecord>>
    /\ call[c].result = "response"
    /\ call[c].body = call[c].lastContent.body

----------------------------------------------------------------------------
(* C33: absorb-headers changes the stored state only when both budget
   headers are present and parse as integers: an absent budget-remaining
   header is a no-op without error, and a present budget-remaining header
   with an absent reset header returns an error and writes nothing.  Every
   step that changes the store is a SET of an absorption whose two headers
   are integers; an absorption of other headers returns at once, nil when
   budget-remaining is absent and an error otherwise. *)
BothInt(h) == h.remain.k = "int" /\ h.reset.k = "int"

C33_WriteOnlyBothHeaders ==
  /\ [][rl' # rl =>
          \E p \in Procs :
            /\ tp[p].pc \in {"set1", "set2", "set3"}
            /\ tp'[p].pc # tp[p].pc
            /\ tp[p].op = "UpdateFromHeaders"
            /\ BothInt(tp[p].hdr)]_vars
  /\ [](\A p \in Procs :
         /\ tp[p].pc \in {"set1", "set2", "set3"} => BothInt(tp[p].hdr)
         /\ (tp[p].pc = "idle" /\ tp[p].op = "UpdateFromHeaders"
               /\ ~BothInt(tp[p].hdr)) =>
              tp[p].ret = (IF tp[p].hdr.remain.k = "absent" THEN "nil"
                           ELSE "error"))

(* An absorption of a budget-remaining header without a reset header has
   returned an error on a reachable Redis, whose tracker keys are still
   absent *)
C33_Witness ==
  \E p \in Procs :
    /\ tp[p].pc = "idle"
    /\ tp[p].op = "UpdateFromHeaders"
    /\ tp[p].hdr.remain.k = "int"
    /\ tp[p].hdr.reset.k = "absent"
    /\ tp[p].ret = "error"
    /\ redisUp
    /\ rl = EmptyStore

----------------------------------------------------------------------------
(* C34: every terminal error that do() surfaces for a policy decision (gate
   refusal, retry exhaustion, cancellation) carries its kind as an
   inspectable discriminant and its underlying cause as a wrapped chain:
   the error of a gate refusal wraps a discriminant, retry-exhausted wraps
   ErrRetryExhausted and the last underlying error, cancelled wraps
   ErrContextCancelled and the cancellation cause. *)
C34_ErrorsWrapKindAndCause ==
  \A c \in Calls :
    call[c].pc = "done" =>
      /\ call[c].result = "rate_limit_critical" =>
            DoError(call[c]).wrapped # {}
      /\ call[c].result = "retry_exhausted" =>
            /\ ErrRetryExhausted \in DoError(call[c]).wrapped
            /\ LastErr(call[c]).wrapped \subseteq DoError(call[c]).wrapped
      /\ call[c].result = "cancelled" =>
            /\ ErrContextCancelled \in DoError(call[c]).wrapped
            /\ ContextCanceled \in DoError(call[c]).wrapped

----------------------------------------------------------------------------
(* C35: on every path of do(), each upstream response body is either
   returned to the caller or closed internally before the response is
   discarded; no body is leaked on the retry path, the retry-exhaustion
   path or the 304 path.  No response is replaced by the next one with its
   body open, no body is open while the loop waits or starts an attempt,
   and a body that is open when Do returns is the one handed to the
   caller. *)
C35_NoBodyLeak ==
  \A c \in Calls :
    /\ call[c].leaks = 0
    /\ call[c].pc \in {"backoff", "send", "inflight"} => ~call[c].bodyOpen
    /\ call[c].pc = "done" =>
          /\ call[c].bodyOpen => call[c].handed
          /\ call[c].handed =>
                (call[c].result = "response" /\ call[c].last # 304)
          /\ call[c].last = 304 => ~call[c].bodyOpen

(* Three responses with a retryable status have been received and the
   call has ended with retry-exhausted *)
C35_Witness ==
  \E c \in Calls :
    /\ call[c].pc = "done"
    /\ call[c].result = "retry_exhausted"
    /\ call[c].responses = 3
    /\ ~call[c].bodyOpen
    /\ call[c].leaks = 0

----------------------------------------------------------------------------
(* C36: while the stored budget-remaining is below 5, no upstream
   round-trip is started by any call, including the second and third retry
   attempts of a call that was admitted before the budget dropped below
   5. *)
BudgetCritical ==
  /\ rl.errors_remaining # Absent
  /\ rl.errors_remaining[1] < ErrorThresholdCritical

C36_NoRoundTripWhileCritical ==
  [][\A c \in Calls :
       call'[c].roundTrips = call[c].roundTrips + 1 => ~BudgetCritical]_vars

----------------------------------------------------------------------------
(* C37: whenever do() takes the 304 path, a cached entry for the request's
   key is available to build the returned response; this also holds when
   the cache lookup was a miss or failed and the 304 answers conditional
   headers that the caller put on the request (a 304 to a request on which
   Do itself put no conditional headers). *)
Took304Path(c) ==
  /\ call[c].pc = "done"
  /\ call[c].retryErr = "nil"
  /\ call[c].last = 304

C37_EntryAvailableOn304 ==
  \A c \in Calls :
    Took304Path(c) =>
      /\ call[c].entry # Absent
      /\ call[c].result = "response"
      /\ call[c].body = call[c].entry[1].Data

----------------------------------------------------------------------------
(* C38: a refresh-ttl that runs concurrently with a set of a newer entry
   for the same key never replaces the newer entry's body and validators
   with the older ones: after both operations finish, the stored body is
   the one written by set. *)
C38_SetSurvivesUpdateTTL ==
  (mgr.upd.pc = "done" /\ mgr.set.pc = "done" /\ mgr.set.wrote) =>
    /\ cache # Absent
    /\ Unmarshal(cache[1].data).Data = mgr.set.arg[1].Data
    /\ Unmarshal(cache[1].data).ETag = Marshal(mgr.set.arg[1]).etag

----------------------------------------------------------------------------
(* pkg/pagination: BatchFetcher.FetchAllPages (SpecPages, SpecPagesLive).
   The call fetches page 1, then starts the page-queue filler, the workers
   and the channel closer, and collects the results.  Channels are
   sequences with a capacity and a closed flag; one step per channel
   operation or fetch *)

Workers == 1..MaxWorkers

(* Config values after NewBatchFetcher (all positive) *)
PageConfigs ==
  [MaxConcurrency : Workers, BufferSize : {1, 2}]

(* The call before its first fetch *)
StartPages(config) ==
  [config |-> config, main |-> "first", total |-> 0, cancelled |-> FALSE,
   pageQueue |-> <<>>, queueClosed |-> FALSE,
   pageResults |-> <<>>, errors |-> <<>>, closed |-> FALSE,
   filler |-> [pc |-> "off", page |-> 0],
   worker |-> [w \in Workers |-> [pc |-> "off", page |-> 0]],
   closer |-> "off", wg |-> 0,
   results |-> {}, fetchedPages |-> 0, failed |-> {}, ret |-> "none"]

InitPages ==
  /\ now = 0
  /\ rl = EmptyStore
  /\ redisUp = TRUE
  /\ cfg = DefaultConfig
  /\ cache = Absent
  /\ tp = [p \in Procs |-> IdleProc]
  /\ mgr = NoMgr
  /\ ck = NoKeys
  /\ pg \in {StartPages(config) : config \in PageConfigs}
  /\ tuples = {}
  /\ lastLanded = EmptyStore
  /\ call = [c \in Calls |-> IdleCall]
  /\ upstream = NoUpstream

PagesFrame ==
  UNCHANGED <<now, rl, redisUp, tp, tuples, lastLanded, cfg, call, upstream,
              cache, mgr, ck>>

(* FetchPage(ctx, endpoint, 1): on an error return it; with one page
   return that page; otherwise make the channels and start the filler,
   MaxConcurrency workers and the closer *)
PFetchFirst ==
  /\ pg.main = "first"
  /\ \E ok \in BOOLEAN, totalPages \in 1..MaxPages :
       pg' = IF ~ok
               THEN [pg EXCEPT !.main = "done", !.ret = "error"]
             ELSE IF totalPages = 1
               THEN [pg EXCEPT !.main = "done", !.ret = "nil", !.total = 1,
                               !.results = {1}, !.fetchedPages = 1]
             ELSE [pg EXCEPT !.main = "collect", !.total = totalPages,
                     !.results = {1}, !.fetchedPages = 1,
                     !.filler = [pc |-> "fill", page |-> 2],
                     !.worker = [w \in Workers |->
                        IF w <= pg.config.MaxConcurrency
                          THEN [pc |-> "recv", page |-> 0]
                          ELSE [pc |-> "off", page |-> 0]],
                     !.wg = pg.config.MaxConcurrency,
                     !.closer = "wait"]
  /\ PagesFrame

(* The filler: pageQueue <- page for page 2..totalPages (blocks while the
   buffer is full), then close(pageQueue) *)
PFill ==
  /\ pg.filler.pc = "fill"
  /\ IF pg.filler.page > pg.total
       THEN pg' = [pg EXCEPT !.queueClosed = TRUE, !.filler.pc = "done"]
       ELSE /\ Len(pg.pageQueue) < pg.config.BufferSize
            /\ pg' = [pg EXCEPT !.pageQueue = Append(@, pg.filler.page),
                                !.filler.page = @ + 1]
  /\ PagesFrame

(* A worker returns: defer wg.Done() *)
WorkerReturn(state, w) ==
  [state EXCEPT !.worker[w].pc = "done", !.wg = @ - 1]

(* worker: for pageNum := range pageQueue *)
WRecv(w) ==
  /\ pg.worker[w].pc = "recv"
  /\ IF pg.pageQueue # <<>>
       THEN pg' = [pg EXCEPT !.pageQueue = Tail(@),
                            !.worker[w] = [pc |-> "check",
                                           page |-> Head(pg.pageQueue)]]
       ELSE /\ pg.queueClosed
            /\ pg' = WorkerReturn(pg, w)
  /\ PagesFrame

(* worker: select { case <-ctx.Done(): return; default: } *)
WCheck(w) ==
  /\ pg.worker[w].pc = "check"
  /\ pg' = IF pg.cancelled THEN WorkerReturn(pg, w)
           ELSE [pg EXCEPT !.worker[w].pc = "fetch"]
  /\ PagesFrame

(* worker: FetchPage under the per-page timeout; on an error (fetch error,
   timeout, cancelled context) a non-blocking send on errors and return *)
WFetch(w) ==
  /\ pg.worker[w].pc = "fetch"
  /\ \E ok \in BOOLEAN :
       pg' = IF ok THEN [pg EXCEPT !.worker[w].pc = "send"]
             ELSE WorkerReturn(
                    [pg EXCEPT !.failed = @ \cup {pg.worker[w].page},
                               !.errors =
                                  IF Len(@) < pg.config.MaxConcurrency
                                    THEN Append(@, pg.worker[w].page)
                                    ELSE @], w)
  /\ PagesFrame

(* worker: select { case results <- PageResult{...}: ; case <-ctx.Done():
   return } *)
WSend(w) ==
  /\ pg.worker[w].pc = "send"
  /\ \/ /\ Len(pg.pageResults) < pg.config.BufferSize
        /\ pg' = [pg EXCEPT !.pageResults = Append(@, pg.worker[w].page),
                            !.worker[w].pc = "recv"]
     \/ /\ pg.cancelled
        /\ pg' = WorkerReturn(pg, w)
  /\ PagesFrame

(* The closer: wg.Wait(); close(pageResults); close(errors) *)
PCloser ==
  /\ pg.closer = "wait"
  /\ pg.wg = 0
  /\ pg' = [pg EXCEPT !.closed = TRUE, !.closer = "done"]
  /\ PagesFrame

(* FetchAllPages: for result := range pageResults *)
PCollect ==
  /\ pg.main = "collect"
  /\ IF pg.pageResults # <<>>
       THEN pg' = [pg EXCEPT !.pageResults = Tail(@),
                            !.results = @ \cup {Head(pg.pageResults)},
                            !.fetchedPages = @ + 1]
       ELSE /\ pg.closed
            /\ pg' = [pg EXCEPT !.main = "check"]
  /\ PagesFrame

(* FetchAllPages: select { case err := <-errors: ...; default: } and
   return; a receive on the closed, empty channel yields nil *)
PCheckErrors ==
  /\ pg.main = "check"
  /\ pg' = [pg EXCEPT !.main = "done",
                      !.ret = IF pg.errors # <<>> THEN "error" ELSE "nil",
                      !.errors = IF @ = <<>> THEN @ ELSE Tail(@)]
  /\ PagesFrame

(* The caller cancels ctx while the call runs *)
PCancel ==
  /\ pg.main # "done"
  /\ ~pg.cancelled
  /\ pg' = [pg EXCEPT !.cancelled = TRUE]
  /\ PagesFrame

NextPages ==
  \/ PFetchFirst
  \/ PFill
  \/ \E w \in Workers : WRecv(w)
  \/ \E w \in Workers : WCheck(w)
  \/ \E w \in Workers : WFetch(w)
  \/ \E w \in Workers : WSend(w)
  \/ PCloser
  \/ PCollect
  \/ PCheckErrors
  \/ PCancel

SpecPages == InitPages /\ [][NextPages]_vars

(* Every goroutine that can take a step eventually takes one: the Go
   scheduler starves no runnable goroutine *)
PagesFairness ==
  /\ WF_vars(PFetchFirst)
  /\ WF_vars(PFill)
  /\ \A w \in Workers :
       WF_vars(WRecv(w) \/ WCheck(w) \/ WFetch(w) \/ WSend(w))
  /\ WF_vars(PCloser)
  /\ WF_vars(PCollect)
  /\ WF_vars(PCheckErrors)

SpecPagesLive == SpecPages /\ PagesFairness

----------------------------------------------------------------------------
(* C39: FetchAllPages returns a nil error only if the returned map contains
   every page from 1 to totalPages; if any page was not fetched (fetch
   error, per-page timeout or context cancellation) it returns a non-nil
   error together with the pages it did fetch. *)
C39_NilErrorMeansAllPages ==
  (pg.main = "done" /\ pg.ret = "nil") => pg.results = 1..pg.total

----------------------------------------------------------------------------
(* C40: every goroutine started by FetchAllPages (the page-queue filler,
   the workers and the channel closer) terminates, for every totalPages,
   MaxConcurrency and BufferSize, also when workers stop early on a fetch
   error or on context cancellation. *)
GoroutinesDone ==
  /\ pg.main = "done"
  /\ pg.filler.pc \in {"off", "done"}
  /\ pg.closer \in {"off", "done"}
  /\ \A w \in Workers : pg.worker[w].pc \in {"off", "done"}

C40_GoroutinesTerminate == <>GoroutinesDone

====
